---- MODULE Spec2Model ----
(***************************************************************************)
(* Model of the Garmin sync service's scoring engine                       *)
(* (src/app/garmin_sync.py): the DailyMetric rows a sync writes, and the   *)
(* recovery, strain, sleep-performance and biological-age computations     *)
(* that _calculate_scores runs on a row.                                   *)
(*                                                                         *)
(* Numbers.  Python computes the scores in binary floating point.  The     *)
(* model computes them in exact rational arithmetic (a pair <<n, d>>,      *)
(* d > 0; d = 0 stands for a raised ZeroDivisionError) and stores the      *)
(* one-decimal floats (strain_score, biological_age, the bio_age_*_impact  *)
(* columns) as integers in tenths.  vo2_max, a float column that Garmin    *)
(* reports with one decimal, is held in tenths as well.  Two float         *)
(* operations depend on the representation error of their argument:        *)
(* int(x) when x is mathematically an integer (the float may lie just      *)
(* below it) and round(x, 1) when x is mathematically a tie.  Their        *)
(* outcome is a fixed but unknown function of the value, which the         *)
(* variable fp selects (see IntOf and Round1).                             *)
(***************************************************************************)
EXTENDS Integers, Sequences, FiniteSets, TLC

VARIABLES
    user,           \* the User row: birth_year
    fp,             \* the floating-point oracle: "even", "down" or "odd"
    daily_metrics,  \* the daily_metrics table: a sequence of DailyMetric rows
    metric,         \* SpecScores: the DailyMetric object _calculate_scores works on
    runs,           \* SpecScores: how many times _calculate_scores has run on it
    prev,           \* SpecScores: metric as it was before the last run
    raised,         \* whether the last _calculate_scores raised an exception
    activities,     \* the activities table: a sequence of Activity rows
    today,          \* date.today(), as a proleptic Gregorian ordinal
    response,       \* SpecApi: the JSON body of the last API response
    accounts,       \* the users table, by user id
    sync_logs,      \* the sync_logs table: a sequence of SyncLog rows
    calls,          \* per caller: where its sync is, and its database session
    selection       \* the call of select_exercises_for_day: arguments and locals

vars == <<user, fp, daily_metrics, metric, runs, prev, raised, activities, today,
          response, accounts, sync_logs, calls, selection>>

----------------------------------------------------------------------------
(* Nullable columns: None is <<>>, a present value v is <<v>>.             *)

None == <<>>

Some(v) == <<v>>

Val(x) == x[1]

\* Python truthiness of a nullable number: `if metric.resting_hr:`
Truthy(x) == x # None /\ Val(x) # 0

\* `x or 0`
OrZero(x) == IF Truthy(x) THEN Val(x) ELSE 0

Min(a, b) == IF a <= b THEN a ELSE b

Max(a, b) == IF a >= b THEN a ELSE b

Abs(a) == IF a < 0 THEN -a ELSE a

----------------------------------------------------------------------------
(* Exact rationals <<n, d>> with d > 0, kept in lowest terms.  <<0, 0>> is *)
(* the outcome of a division by zero and propagates through every          *)
(* operation, as the exception would abandon the computation.              *)

RECURSIVE GCD(_, _)
GCD(a, b) == IF b = 0 THEN a ELSE GCD(b, a % b)

RErr == <<0, 0>>

IsErr(q) == q[2] = 0

Rat(n, d) ==
    IF d = 0 THEN RErr
    ELSE LET s == IF d < 0 THEN -1 ELSE 1
             g == GCD(Abs(n), Abs(d))
         IN <<(s * n) \div g, (s * d) \div g>>

RInt(k) == <<k, 1>>

RAdd(p, q) == IF IsErr(p) \/ IsErr(q) THEN RErr
              ELSE Rat(p[1] * q[2] + q[1] * p[2], p[2] * q[2])

RMul(p, q) == IF IsErr(p) \/ IsErr(q) THEN RErr
              ELSE Rat(p[1] * q[1], p[2] * q[2])

RDiv(p, q) == IF IsErr(p) \/ IsErr(q) THEN RErr
              ELSE Rat(p[1] * q[2], p[2] * q[1])

RLe(p, q) == p[1] * q[2] <= q[1] * p[2]

RLt(p, q) == p[1] * q[2] < q[1] * p[2]

RMin(p, q) == IF IsErr(p) \/ IsErr(q) THEN RErr ELSE IF RLe(p, q) THEN p ELSE q

RMax(p, q) == IF IsErr(p) \/ IsErr(q) THEN RErr ELSE IF RLe(q, p) THEN p ELSE q

----------------------------------------------------------------------------
(* The two float operations whose result depends on representation error.  *)

FpModes == {"even", "down", "odd"}

\* Whether the float computed for the exact integer k > 0 lies just below k.
FpBelow(k) == fp = "down" \/ (fp = "odd" /\ k % 2 = 1)

\* Whether the float computed for the exact tie j + 1/2 (in tenths) rounds up.
\* "even" is round-half-even on the exact value, Python's rule for a tie that
\* is representable.
FpTieUp(j) == (fp = "even" /\ j % 2 = 1) \/ (fp = "odd" /\ j % 2 = 0)

\* int(x): truncation toward zero of the float x whose exact value is q.
IntOf(q) ==
    LET n == q[1]
        d == q[2]
    IN IF n % d = 0
       THEN LET k == n \div d
            IN IF k > 0 /\ FpBelow(k) THEN k - 1
               ELSE IF k < 0 /\ FpBelow(-k) THEN k + 1
               ELSE k
       ELSE IF n >= 0 THEN n \div d ELSE -((-n) \div d)

\* round(x, 1), in tenths, of the float x whose exact value is q.
Round1(q) ==
    LET n == 10 * q[1]
        d == q[2]
        j == n \div d
        r == n - j * d
    IN IF 2 * r < d THEN j
       ELSE IF 2 * r > d THEN j + 1
       ELSE IF FpTieUp(j) THEN j + 1 ELSE j

\* round(x, 2), in hundredths, of the float x whose exact value is q.
Round2(q) ==
    LET n == 100 * q[1]
        d == q[2]
        j == n \div d
        r == n - j * d
    IN IF 2 * r < d THEN j
       ELSE IF 2 * r > d THEN j + 1
       ELSE IF FpTieUp(j) THEN j + 1 ELSE j

----------------------------------------------------------------------------
(* The User and DailyMetric rows (src/app/models.py).                      *)

\* datetime.now().year, the wall-clock year get_real_age reads.
CurrentYear == 2026

\* User.get_real_age: the age when the birth year is unknown.
DefaultAge == 42

\* User.get_real_age
GetRealAge(u) ==
    IF Truthy(u.birth_year) THEN CurrentYear - Val(u.birth_year) ELSE DefaultAge

\* The raw telemetry columns that _calculate_scores reads.
RawFields == {"body_battery_high", "resting_hr", "sleep_seconds",
              "deep_sleep_seconds", "rem_sleep_seconds",
              "moderate_intensity_minutes", "vigorous_intensity_minutes",
              "active_calories", "stress_avg", "vo2_max", "steps"}

\* The columns that _calculate_scores writes.
DerivedFields == {"recovery_score", "strain_score", "sleep_performance",
                  "biological_age", "bio_age_rhr_impact", "bio_age_vo2_impact",
                  "bio_age_sleep_impact", "bio_age_steps_impact",
                  "bio_age_hrz_impact", "bio_age_stress_impact"}

\* DailyMetric(user_id=..., date=...): every other column is NULL.
NewDailyMetric(uid, day) ==
    [f \in {"user_id", "date"} \cup RawFields \cup DerivedFields |->
        IF f = "user_id" THEN Some(uid)
        ELSE IF f = "date" THEN Some(day)
        ELSE None]

\* The row with the raw columns of `raw` (a function on RawFields).
WithRaw(m, raw) == [f \in DOMAIN m |-> IF f \in RawFields THEN raw[f] ELSE m[f]]

\* No API request has been answered yet.
NoResponse == [op |-> "none"]

\* No sync_user call has been made (no user, no SyncLog, no caller) and no
\* exercise selection has been asked for.
NoSync ==
    accounts = <<>> /\ sync_logs = <<>> /\ calls = <<>> /\ selection = [pc |-> "idle"]

----------------------------------------------------------------------------
(* _calculate_scores: the recovery score.                                  *)

\* rhr_baseline
RhrBaseline == 60

\* The body-battery component: min(100, body_battery_high), weight 0.4.
BodyBatteryComponent(m) ==
    IF Truthy(m.body_battery_high)
    THEN << <<RInt(Min(100, Val(m.body_battery_high))), 4>> >>
    ELSE <<>>

\* Mutant of RhrComponent: the baseline is 55 instead of rhr_baseline.
RhrComponent_Baseline55(m) ==
    IF Truthy(m.resting_hr)
    THEN LET rhr_diff == Val(m.resting_hr) - 55
         IN << <<RInt(Max(0, Min(100, 100 - rhr_diff * 3))), 3>> >>
    ELSE <<>>

\* The resting-heart-rate component, weight 0.3.
RhrComponent(m) ==
    IF Truthy(m.resting_hr)
    THEN LET rhr_diff == Val(m.resting_hr) - RhrBaseline
         IN << <<RInt(Max(0, Min(100, 100 - rhr_diff * 3))), 3>> >>
    ELSE <<>>

\* sleep_duration_score of the recovery score, for sleep_seconds = s.
SleepDurationScore(s) ==
    IF s >= 7 * 3600 THEN RInt(100)
    ELSE IF s >= 6 * 3600 THEN RInt(80)
    ELSE IF s >= 5 * 3600 THEN RInt(60)
    ELSE RMax(RInt(0), Rat(s * 60, 3600 * 5))

\* The guard of the deep + REM quality term of the recovery score.
RecoveryQualityGuard(m) == Truthy(m.deep_sleep_seconds) /\ Truthy(m.rem_sleep_seconds)

\* sleep_score of the recovery score.
RecoverySleepScore(m) ==
    LET s == Val(m.sleep_seconds)
        sleep_duration_score == SleepDurationScore(s)
    IN IF RecoveryQualityGuard(m)
       THEN LET quality_ratio ==
                    Rat(Val(m.deep_sleep_seconds) + Val(m.rem_sleep_seconds), s)
                quality_score ==
                    RMin(RInt(100), RMul(RDiv(quality_ratio, Rat(4, 10)), RInt(100)))
            IN RDiv(RAdd(sleep_duration_score, quality_score), RInt(2))
       ELSE sleep_duration_score

\* Mutant of SleepGuard: the test written `is not None`.
SleepGuard_NotNone(m) == m.sleep_seconds # None

\* The guard of the sleep component: `if metric.sleep_seconds:`
SleepGuard(m) == Truthy(m.sleep_seconds)

\* The sleep component, weight 0.3.
SleepComponent(m) ==
    IF SleepGuard(m) THEN << <<RecoverySleepScore(m), 3>> >> ELSE <<>>

\* recovery_components: the <<score, weight in tenths>> pairs, in the code's order.
RecoveryComponents(m) ==
    BodyBatteryComponent(m) \o RhrComponent(m) \o SleepComponent(m)

\* Mutant of SumWeights: the weights are not renormalized (the full weight 1.0).
SumWeights_Full(cs) == 10

\* total_weight, in tenths.
RECURSIVE SumWeights(_)
SumWeights(cs) == IF cs = <<>> THEN 0 ELSE Head(cs)[2] + SumWeights(Tail(cs))

RECURSIVE SumWeighted(_)
SumWeighted(cs) ==
    IF cs = <<>> THEN RInt(0)
    ELSE RAdd(RMul(Head(cs)[1], RInt(Head(cs)[2])), SumWeighted(Tail(cs)))

\* weighted_sum / total_weight
WeightedMean(cs) == RDiv(SumWeighted(cs), RInt(SumWeights(cs)))

\* Whether the recovery block raises (a division by zero).
RecoveryRaises(m) ==
    RecoveryComponents(m) # <<>> /\ IsErr(WeightedMean(RecoveryComponents(m)))

\* The recovery block: recovery_score is assigned only when a component exists.
CalcRecovery(m) ==
    LET cs == RecoveryComponents(m)
    IN IF cs = <<>> THEN m
       ELSE [m EXCEPT !.recovery_score = Some(IntOf(WeightedMean(cs)))]

----------------------------------------------------------------------------
(* _calculate_scores: the strain score (in tenths).                        *)

StrainCap == 210

\* strain before rounding and capping.
StrainRaw(m) ==
    LET moderate == OrZero(m.moderate_intensity_minutes)
        vigorous == OrZero(m.vigorous_intensity_minutes)
        base == RAdd(Rat(moderate * 5, 100), Rat(vigorous * 15, 100))
        cal == IF Truthy(m.active_calories)
               THEN Rat(Val(m.active_calories), 100) ELSE RInt(0)
        stress == IF Truthy(m.stress_avg) /\ Val(m.stress_avg) > 50
                  THEN Rat(Val(m.stress_avg) - 50, 50) ELSE RInt(0)
    IN RAdd(RAdd(base, cal), stress)

\* Mutant of CalcStrain: the cap at 21 is missing.
CalcStrain_NoCap(m) ==
    [m EXCEPT !.strain_score = Some(Round1(StrainRaw(m)))]

\* Mutant of CalcStrain: the strain starts from the stored score instead of 0.
CalcStrain_Accumulate(m) ==
    [m EXCEPT !.strain_score =
        Some(Min(StrainCap, OrZero(m.strain_score) + Round1(StrainRaw(m))))]

\* The strain block: min(21.0, round(strain, 1)).
CalcStrain(m) ==
    [m EXCEPT !.strain_score = Some(Min(StrainCap, Round1(StrainRaw(m))))]

----------------------------------------------------------------------------
(* _calculate_scores: the sleep performance.                               *)

\* The default phase quality.
DefaultQualityPct == 50

\* The guard of the phase-quality term.
PhaseQualityGuard(m) ==
    /\ Truthy(m.deep_sleep_seconds)
    /\ Truthy(m.rem_sleep_seconds)
    /\ Val(m.sleep_seconds) > 0

\* quality_pct
PhaseQuality(m) ==
    IF PhaseQualityGuard(m)
    THEN LET s == Val(m.sleep_seconds)
             deep_pct == Rat(Val(m.deep_sleep_seconds), s)
             rem_pct == Rat(Val(m.rem_sleep_seconds), s)
             deep_score ==
                 RMin(RInt(100), RMul(RDiv(deep_pct, Rat(175, 1000)), RInt(100)))
             rem_score ==
                 RMin(RInt(100), RMul(RDiv(rem_pct, Rat(225, 1000)), RInt(100)))
         IN RDiv(RAdd(deep_score, rem_score), RInt(2))
    ELSE RInt(DefaultQualityPct)

\* duration_pct = min(100, (sleep_hours / 8) * 100)
DurationPct(m) == RMin(RInt(100), Rat(Val(m.sleep_seconds) * 100, 3600 * 8))

\* (duration_pct * 0.6) + (quality_pct * 0.4)
SleepPerformanceValue(m) ==
    RAdd(RMul(DurationPct(m), Rat(6, 10)), RMul(PhaseQuality(m), Rat(4, 10)))

\* Whether the sleep-performance block raises (a division by zero).
SleepPerformanceRaises(m) == SleepGuard(m) /\ IsErr(SleepPerformanceValue(m))

\* The sleep-performance block: assigned only when sleep_seconds is truthy.
CalcSleepPerformance(m) ==
    IF SleepGuard(m)
    THEN [m EXCEPT !.sleep_performance = Some(IntOf(SleepPerformanceValue(m)))]
    ELSE m

----------------------------------------------------------------------------
(* _calculate_biological_age.  An impact is None (the key is not in the    *)
(* impacts dict) or <<q>> with q a rational in [-1, 1].                    *)

MAX_YEARS == 8

FactorNames == {"rhr", "vo2", "sleep", "steps", "hrz"}

\* Mutant of RhrImpact: the sign of the difference is reversed.
RhrImpact_Reversed(m) ==
    IF Truthy(m.resting_hr) /\ Val(m.resting_hr) > 0
    THEN Some(RMax(RInt(-1), RMin(RInt(1), Rat(60 - Val(m.resting_hr), 20))))
    ELSE None

\* 1. RHR impact: baseline 60, range 40-80.
RhrImpact(m) ==
    IF Truthy(m.resting_hr) /\ Val(m.resting_hr) > 0
    THEN Some(RMax(RInt(-1), RMin(RInt(1), Rat(Val(m.resting_hr) - 60, 20))))
    ELSE None

\* 2. VO2 max impact: baseline 42, range 30-55 (vo2_max is in tenths).
Vo2Impact(m) ==
    IF Truthy(m.vo2_max) /\ Val(m.vo2_max) > 0
    THEN Some(RMax(RInt(-1), RMin(RInt(1), Rat(420 - Val(m.vo2_max), 130))))
    ELSE None

\* Mutant of SleepImpact: the min(1, ...) clamp on short sleep is missing.
SleepImpact_Unclamped(m) ==
    IF Truthy(m.sleep_seconds) /\ Val(m.sleep_seconds) > 0
    THEN LET sleep_hours == Rat(Val(m.sleep_seconds), 3600)
         IN IF RLe(RInt(7), sleep_hours) /\ RLe(sleep_hours, Rat(85, 10))
            THEN Some(Rat(-3, 10))
            ELSE IF RLt(sleep_hours, RInt(7))
            THEN Some(RDiv(RAdd(RInt(7), RMul(RInt(-1), sleep_hours)), RInt(3)))
            ELSE Some(RMin(Rat(5, 10), RDiv(RAdd(sleep_hours, Rat(-85, 10)), RInt(3))))
    ELSE None

\* 3. Sleep impact: optimal 7 to 8.5 hours.
SleepImpact(m) ==
    IF Truthy(m.sleep_seconds) /\ Val(m.sleep_seconds) > 0
    THEN LET sleep_hours == Rat(Val(m.sleep_seconds), 3600)
         IN IF RLe(RInt(7), sleep_hours) /\ RLe(sleep_hours, Rat(85, 10))
            THEN Some(Rat(-3, 10))
            ELSE IF RLt(sleep_hours, RInt(7))
            THEN Some(RMin(RInt(1), RDiv(RAdd(RInt(7), RMul(RInt(-1), sleep_hours)), RInt(3))))
            ELSE Some(RMin(Rat(5, 10), RDiv(RAdd(sleep_hours, Rat(-85, 10)), RInt(3))))
    ELSE None

\* 4. Steps impact: target 10k.
StepsImpact(m) ==
    IF Truthy(m.steps) /\ Val(m.steps) > 0
    THEN LET steps == Val(m.steps)
         IN Some(IF steps >= 12000 THEN Rat(-8, 10)
                 ELSE IF steps >= 10000 THEN Rat(-5, 10)
                 ELSE IF steps >= 8000 THEN Rat(-2, 10)
                 ELSE IF steps >= 6000 THEN Rat(0, 10)
                 ELSE IF steps >= 4000 THEN Rat(3, 10)
                 ELSE IF steps >= 2000 THEN Rat(6, 10)
                 ELSE Rat(10, 10))
    ELSE None

\* intensity_score = moderate + (vigorous * 2)
IntensityScore(m) ==
    OrZero(m.moderate_intensity_minutes) + OrZero(m.vigorous_intensity_minutes) * 2

\* Mutant of IntensityGuard: the factor is computed only when the score is positive.
IntensityGuard_ScoreOnly(m) == IntensityScore(m) > 0

\* The condition under which the intensity factor is computed.
IntensityGuard(m) ==
    \/ IntensityScore(m) > 0
    \/ /\ OrZero(m.moderate_intensity_minutes) = 0
       /\ OrZero(m.vigorous_intensity_minutes) = 0
       /\ Truthy(m.steps)
       /\ Val(m.steps) > 0

\* 5. Intensity minutes impact.
HrzImpact(m) ==
    IF IntensityGuard(m)
    THEN LET intensity_score == IntensityScore(m)
         IN Some(IF intensity_score >= 60 THEN Rat(-8, 10)
                 ELSE IF intensity_score >= 45 THEN Rat(-5, 10)
                 ELSE IF intensity_score >= 30 THEN Rat(-2, 10)
                 ELSE IF intensity_score >= 15 THEN Rat(0, 10)
                 ELSE IF intensity_score >= 5 THEN Rat(3, 10)
                 ELSE Rat(5, 10))
    ELSE None

\* The impacts dict.
Impacts(m) ==
    [f \in FactorNames |->
        CASE f = "rhr" -> RhrImpact(m)
          [] f = "vo2" -> Vo2Impact(m)
          [] f = "sleep" -> SleepImpact(m)
          [] f = "steps" -> StepsImpact(m)
          [] f = "hrz" -> HrzImpact(m)]

\* The keys of the impacts dict.
ImpactKeys(imp) == {f \in FactorNames : imp[f] # None}

\* sum(impacts.values())
SumImpacts(imp) ==
    LET v(f) == IF imp[f] = None THEN RInt(0) ELSE Val(imp[f])
    IN RAdd(v("rhr"), RAdd(v("vo2"), RAdd(v("sleep"), RAdd(v("steps"), v("hrz")))))

\* Mutant of MinFactors: the threshold test written `<= 2`.
MinFactors_Three == 2 + 1

\* The least number of impacts for which a biological age is computed.
MinFactors == 2

\* Mutant of ImpactYears: the impact is scaled by MAX_YEARS, not MAX_YEARS / n.
ImpactYears_Unscaled(imp, f, n) ==
    IF imp[f] = None THEN None
    ELSE Some(Round1(RMul(Val(imp[f]), RInt(MAX_YEARS))))

\* round(impacts[f] * scale, 1) if f in impacts else None, with scale = MAX_YEARS / n.
ImpactYears(imp, f, n) ==
    IF imp[f] = None THEN None
    ELSE Some(Round1(RMul(Val(imp[f]), Rat(MAX_YEARS, n))))

\* round(real_age + final_impact, 1), final_impact = avg_impact * MAX_YEARS.
BiologicalAgeValue(imp, n, real_age) ==
    LET avg_impact == RDiv(SumImpacts(imp), RInt(n))
        final_impact == RMul(avg_impact, RInt(MAX_YEARS))
    IN Round1(RAdd(RInt(real_age), final_impact))

\* _calculate_biological_age
CalculateBiologicalAge(m, u) ==
    LET real_age == GetRealAge(u)
        imp == Impacts(m)
        n == Cardinality(ImpactKeys(imp))
    IN IF n < MinFactors
       THEN [m EXCEPT !.biological_age = None,
                      !.bio_age_rhr_impact = None,
                      !.bio_age_vo2_impact = None,
                      !.bio_age_sleep_impact = None,
                      !.bio_age_steps_impact = None,
                      !.bio_age_hrz_impact = None,
                      !.bio_age_stress_impact = None]
       ELSE [m EXCEPT !.bio_age_rhr_impact = ImpactYears(imp, "rhr", n),
                      !.bio_age_vo2_impact = ImpactYears(imp, "vo2", n),
                      !.bio_age_sleep_impact = ImpactYears(imp, "sleep", n),
                      !.bio_age_steps_impact = ImpactYears(imp, "steps", n),
                      !.bio_age_hrz_impact = ImpactYears(imp, "hrz", n),
                      !.bio_age_stress_impact = None,
                      !.biological_age = Some(BiologicalAgeValue(imp, n, real_age))]

----------------------------------------------------------------------------
(* _calculate_scores as a whole.  An exception leaves the columns assigned *)
(* before it and abandons the rest.                                        *)

\* Whether _calculate_scores raises on the row m.
ScoresRaise(m) == RecoveryRaises(m) \/ SleepPerformanceRaises(m)

\* The row as _calculate_scores leaves it.
CalculateScores(m, u) ==
    IF RecoveryRaises(m) THEN m
    ELSE LET m2 == CalcStrain(CalcRecovery(m))
         IN IF SleepPerformanceRaises(m2) THEN m2
            ELSE CalculateBiologicalAge(CalcSleepPerformance(m2), u)

----------------------------------------------------------------------------
(* SpecScores: _calculate_scores as a function of one DailyMetric object.  *)
(* The object is a row the sync has just filled with raw telemetry: a new  *)
(* one, or an existing one that still carries the derived columns of an    *)
(* earlier run on other telemetry.                                         *)

\* How many times in a row _calculate_scores is applied to the object.
MaxRuns == 2

UserIds == {1}

\* Birth years: unknown (age 42) and 1996 (age 30).
BirthYears == {None, Some(1996)}

NoRaw == [f \in RawFields |-> None]

\* Telemetry that varies the inputs of the biological age.
BioInputs ==
    {[NoRaw EXCEPT !.resting_hr = a, !.vo2_max = b, !.sleep_seconds = c,
                   !.steps = d, !.moderate_intensity_minutes = e,
                   !.vigorous_intensity_minutes = g] :
        a \in {None, Some(0), Some(50), Some(70), Some(80)},
        b \in {None, Some(300), Some(470)},
        c \in {None, Some(0), Some(18000), Some(25065), Some(27000), Some(36000)},
        d \in {None, Some(0), Some(1500), Some(7000), Some(12000)},
        e \in {None, Some(0), Some(20)},
        g \in {None, Some(0), Some(10)}}

\* Telemetry that varies the inputs of the recovery score and the sleep performance.
RecoveryInputs ==
    {[NoRaw EXCEPT !.body_battery_high = a, !.resting_hr = b, !.sleep_seconds = c,
                   !.deep_sleep_seconds = d, !.rem_sleep_seconds = e] :
        a \in {None, Some(0), Some(57), Some(120)},
        b \in {None, Some(45), Some(76), Some(100)},
        c \in {None, Some(0), Some(7200), Some(19200), Some(27000)},
        d \in {None, Some(0), Some(5400)},
        e \in {None, Some(0), Some(3000), Some(6300)}}

\* Telemetry that varies the inputs of the strain score, negative values included.
StrainInputs ==
    {[NoRaw EXCEPT !.moderate_intensity_minutes = a, !.vigorous_intensity_minutes = b,
                   !.active_calories = c, !.stress_avg = d] :
        a \in {None, Some(0), Some(20), Some(300), Some(-30)},
        b \in {None, Some(0), Some(10), Some(100)},
        c \in {None, Some(0), Some(450), Some(2500)},
        d \in {None, Some(0), Some(40), Some(70)}}

ScoreInputs == BioInputs \cup RecoveryInputs \cup StrainInputs

\* The telemetry of the earlier run whose derived columns an existing row carries.
EarlierInputs ==
    {[NoRaw EXCEPT !.body_battery_high = Some(80), !.resting_hr = Some(55),
                   !.sleep_seconds = Some(27000), !.deep_sleep_seconds = Some(5400),
                   !.rem_sleep_seconds = Some(6300), !.steps = Some(9000),
                   !.active_calories = Some(450), !.vo2_max = Some(470)]}

\* The row before the sync fills in the day's telemetry: new, or existing with
\* the derived columns of the earlier run.
RowsBeforeSync(u) ==
    {NewDailyMetric(u.id, 1)}
    \cup {CalculateScores(WithRaw(NewDailyMetric(u.id, 1), old), u) : old \in EarlierInputs}

InitScores ==
    /\ user \in {[id |-> i, birth_year |-> b] : i \in UserIds, b \in BirthYears}
    /\ fp \in FpModes
    /\ daily_metrics = <<>>
    /\ \E m0 \in RowsBeforeSync(user) :
          metric \in {WithRaw(m0, raw) : raw \in ScoreInputs}
    /\ prev = metric
    /\ runs = 0
    /\ raised = FALSE
    /\ activities = <<>>
    /\ today = 1
    /\ response = NoResponse
    /\ NoSync

\* One call of _calculate_scores(metric, user).
RunCalculateScores ==
    /\ runs < MaxRuns
    /\ prev' = metric
    /\ metric' = CalculateScores(metric, user)
    /\ raised' = ScoresRaise(metric)
    /\ runs' = runs + 1
    /\ UNCHANGED <<user, fp, daily_metrics, activities, today, response,
                   accounts, sync_logs, calls, selection>>

NextScores == RunCalculateScores

SpecScores == InitScores /\ [][NextScores]_vars

----------------------------------------------------------------------------
(* /api/recalculate: recalculate_bio_age recomputes the biological age of  *)
(* every stored row of the user with its own copy of the estimator.  The   *)
(* four first factors are written as in _calculate_biological_age; the     *)
(* condition of the intensity factor is not.                               *)

\* if intensity_score > 0 or (metric.steps and metric.steps > 0):
RecalcIntensityGuard(m) ==
    \/ IntensityScore(m) > 0
    \/ Truthy(m.steps) /\ Val(m.steps) > 0

\* The impacts dict of the endpoint.
RecalcImpacts(m) ==
    [f \in FactorNames |->
        CASE f = "rhr" -> RhrImpact(m)
          [] f = "vo2" -> Vo2Impact(m)
          [] f = "sleep" -> SleepImpact(m)
          [] f = "steps" -> StepsImpact(m)
          [] f = "hrz" ->
                IF RecalcIntensityGuard(m)
                THEN LET intensity_score == IntensityScore(m)
                     IN Some(IF intensity_score >= 60 THEN Rat(-8, 10)
                             ELSE IF intensity_score >= 45 THEN Rat(-5, 10)
                             ELSE IF intensity_score >= 30 THEN Rat(-2, 10)
                             ELSE IF intensity_score >= 15 THEN Rat(0, 10)
                             ELSE IF intensity_score >= 5 THEN Rat(3, 10)
                             ELSE Rat(5, 10))
                ELSE None]

\* The body of `for metric in metrics` in recalculate_bio_age.
RecalculateBioAge(m, u) ==
    LET real_age == GetRealAge(u)
        imp == RecalcImpacts(m)
        n == Cardinality(ImpactKeys(imp))
    IN IF n < MinFactors
       THEN [m EXCEPT !.biological_age = None,
                      !.bio_age_rhr_impact = None,
                      !.bio_age_vo2_impact = None,
                      !.bio_age_sleep_impact = None,
                      !.bio_age_steps_impact = None,
                      !.bio_age_hrz_impact = None,
                      !.bio_age_stress_impact = None]
       ELSE [m EXCEPT !.bio_age_rhr_impact = ImpactYears(imp, "rhr", n),
                      !.bio_age_vo2_impact = ImpactYears(imp, "vo2", n),
                      !.bio_age_sleep_impact = ImpactYears(imp, "sleep", n),
                      !.bio_age_steps_impact = ImpactYears(imp, "steps", n),
                      !.bio_age_hrz_impact = ImpactYears(imp, "hrz", n),
                      !.bio_age_stress_impact = None,
                      !.biological_age = Some(BiologicalAgeValue(imp, n, real_age))]

\* Telemetry for the two estimators: every factor absent or present, steps of
\* zero, and intensity minutes that are absent, zero, positive and negative.
RecalcInputs ==
    {[NoRaw EXCEPT !.resting_hr = a, !.vo2_max = b, !.sleep_seconds = c,
                   !.steps = d, !.moderate_intensity_minutes = e,
                   !.vigorous_intensity_minutes = g] :
        a \in {None, Some(70)},
        b \in {None, Some(470)},
        c \in {None, Some(27000)},
        d \in {None, Some(0), Some(7000)},
        e \in {None, Some(0), Some(20), Some(-30)},
        g \in {None, Some(0), Some(10), Some(-1)}}

\* SpecRecalc: one stored row, synced and recalculated in any order.
InitRecalc ==
    /\ user \in {[id |-> i, birth_year |-> b] : i \in UserIds, b \in BirthYears}
    /\ fp \in FpModes
    /\ daily_metrics = <<>>
    /\ metric \in {WithRaw(NewDailyMetric(user.id, 1), raw) : raw \in RecalcInputs}
    /\ prev = metric
    /\ runs = 0
    /\ raised = FALSE
    /\ activities = <<>>
    /\ today = 1
    /\ response = NoResponse
    /\ NoSync

\* POST /api/recalculate on the row; count is the number of rows that got a
\* biological age.
Recalculate ==
    /\ prev' = metric
    /\ metric' = RecalculateBioAge(metric, user)
    /\ response' = [op |-> "recalculate",
                    count |-> IF Cardinality(ImpactKeys(RecalcImpacts(metric))) < MinFactors
                              THEN 0 ELSE 1,
                    real_age |-> GetRealAge(user)]
    /\ UNCHANGED <<user, fp, daily_metrics, runs, raised, activities, today,
                   accounts, sync_logs, calls, selection>>

NextRecalc == RunCalculateScores \/ Recalculate

SpecRecalc == InitRecalc /\ [][NextRecalc]_vars

----------------------------------------------------------------------------
(* Activities: _sync_activity and _calculate_activity_strain.  Training    *)
(* effects (floats with one decimal) and strain_score are in tenths; zone  *)
(* times and durations are in seconds.                                     *)

\* The keys of a Garmin activity that the sync reads.
ActivityKeys == {"activityId", "typeKey", "startTimeLocal", "duration",
                 "aerobicTrainingEffect", "anaerobicTrainingEffect",
                 "hrTimeInZone_1", "hrTimeInZone_2", "hrTimeInZone_3",
                 "hrTimeInZone_4", "hrTimeInZone_5"}

\* strain before rounding and capping.
ActivityStrainRaw(a) ==
    LET aerobic == OrZero(a.aerobicTrainingEffect)
        anaerobic == OrZero(a.anaerobicTrainingEffect)
        zone4 == OrZero(a.hrTimeInZone_4)
        zone5 == OrZero(a.hrTimeInZone_5)
        duration == OrZero(a.duration)
    IN RAdd(RAdd(RAdd(Rat(aerobic * 2, 10), Rat(anaerobic * 15, 100)),
                 RAdd(RMul(Rat(zone4, 60), Rat(3, 10)), RMul(Rat(zone5, 60), Rat(5, 10)))),
            RMul(Rat(duration, 3600), Rat(5, 10)))

\* Mutant of CalculateActivityStrain: the zone times are taken as minutes already.
CalculateActivityStrain_ZoneSeconds(a) ==
    Min(StrainCap,
        Round1(RAdd(ActivityStrainRaw(a),
                    RAdd(RMul(Rat(OrZero(a.hrTimeInZone_4) * 59, 60), Rat(3, 10)),
                         RMul(Rat(OrZero(a.hrTimeInZone_5) * 59, 60), Rat(5, 10))))))

\* _calculate_activity_strain: min(21.0, round(strain, 1)), in tenths.
CalculateActivityStrain(a) == Min(StrainCap, Round1(ActivityStrainRaw(a)))

\* Activity(user_id=..., garmin_activity_id=..., ...) with its strain_score.
NewActivity(uid, a) ==
    [user_id |-> Some(uid),
     garmin_activity_id |-> a.activityId,
     activity_type |-> a.typeKey,
     start_time |-> a.startTimeLocal,
     duration_seconds |-> a.duration,
     aerobic_effect |-> a.aerobicTrainingEffect,
     anaerobic_effect |-> a.anaerobicTrainingEffect,
     hr_zone_1 |-> a.hrTimeInZone_1,
     hr_zone_2 |-> a.hrTimeInZone_2,
     hr_zone_3 |-> a.hrTimeInZone_3,
     hr_zone_4 |-> a.hrTimeInZone_4,
     hr_zone_5 |-> a.hrTimeInZone_5,
     strain_score |-> Some(CalculateActivityStrain(a))]

\* How many Activity rows the table may hold.
MaxActivities == 1

NoActivityData == [k \in ActivityKeys |-> None]

\* Activities that vary the inputs of the strain: Garmin reports a training
\* effect of 2.7 as 27 tenths; 1230 s in zone 4 is 20.5 minutes.
StrainPayloads ==
    {[NoActivityData EXCEPT !.aerobicTrainingEffect = a, !.anaerobicTrainingEffect = b,
                            !.duration = c, !.hrTimeInZone_4 = d] :
        a \in {None, Some(30), Some(27)},
        b \in {None, Some(10)},
        c \in {None, Some(3600), Some(5430)},
        d \in {None, Some(1230)}}

\* Activities at the ends of the range: a strain above the cap, zone 5 time, zero
\* values, and negative values.
ExtremePayloads ==
    {[NoActivityData EXCEPT !.aerobicTrainingEffect = Some(50),
                            !.anaerobicTrainingEffect = Some(50),
                            !.duration = Some(36000), !.hrTimeInZone_4 = Some(6000)],
     [NoActivityData EXCEPT !.aerobicTrainingEffect = Some(0), !.duration = Some(0),
                            !.hrTimeInZone_5 = Some(630), !.typeKey = Some("running")],
     [NoActivityData EXCEPT !.aerobicTrainingEffect = Some(-10),
                            !.duration = Some(-3600)],
     [NoActivityData EXCEPT !.anaerobicTrainingEffect = Some(20),
                            !.hrTimeInZone_5 = Some(600),
                            !.typeKey = Some("strength_training")]}

ActivityIds == {None, Some(101), Some(102)}

\* client.get_activities: what one element of the list can be.
ActivityInputs ==
    {[p EXCEPT !.activityId = i] : p \in StrainPayloads \cup ExtremePayloads,
                                   i \in ActivityIds}

\* Mutant of ActivityExists: the lookup never finds the activity.
ActivityExists_Never(rows, garmin_id) == FALSE

\* Activity.query.filter_by(garmin_activity_id=garmin_id).first() is not None
ActivityExists(rows, garmin_id) ==
    \E i \in 1..Len(rows) : rows[i].garmin_activity_id = garmin_id

\* _sync_activity(user, activity_data)
SyncActivity(activity_data) ==
    /\ \/ Len(activities) < MaxActivities
       \/ ~Truthy(activity_data.activityId)
       \/ ActivityExists(activities, activity_data.activityId)
    /\ activities' =
          IF ~Truthy(activity_data.activityId) THEN activities
          ELSE IF ActivityExists(activities, activity_data.activityId) THEN activities
          ELSE Append(activities, NewActivity(user.id, activity_data))
    /\ UNCHANGED <<user, fp, daily_metrics, metric, runs, prev, raised, today, response,
                   accounts, sync_logs, calls, selection>>

----------------------------------------------------------------------------
(* Spec: the daily sync.  _sync_daily_metrics looks the (user, date) row    *)
(* up, overwrites its raw columns with what the Garmin endpoints return,   *)
(* runs _calculate_scores on it and adds the row when it is new.  An       *)
(* endpoint that raises leaves its columns as they were.                   *)

\* The calendar dates a sync can be asked for: 1..NumDays.
NumDays == 1

Dates == 1..NumDays

\* get_stats: what the summary holds for the columns the scores read.
NoStats ==
    [restingHeartRate |-> None, totalSteps |-> None, activeKilocalories |-> None,
     moderateIntensityMinutes |-> None, vigorousIntensityMinutes |-> None,
     averageStressLevel |-> None, bodyBatteryHighestValue |-> None]

FullStats ==
    [restingHeartRate |-> Some(55), totalSteps |-> Some(9000),
     activeKilocalories |-> Some(450), moderateIntensityMinutes |-> Some(20),
     vigorousIntensityMinutes |-> Some(10), averageStressLevel |-> Some(30),
     bodyBatteryHighestValue |-> Some(80)]

\* A summary with out-of-range (negative) counts.
NegStats ==
    [NoStats EXCEPT !.moderateIntensityMinutes = Some(-30),
                    !.activeKilocalories = Some(-200)]

\* get_sleep_data: the dailySleepDTO.
NoSleep ==
    [sleepTimeSeconds |-> None, deepSleepSeconds |-> None, remSleepSeconds |-> None]

FullSleep ==
    [sleepTimeSeconds |-> Some(27000), deepSleepSeconds |-> Some(5400),
     remSleepSeconds |-> Some(6300)]

\* What the Garmin client returns for one day.  stats and sleep are None when
\* the call raises; vo2 is the first VO2 max value found in get_max_metrics, None
\* when the call raises or holds none.
GarminResponses ==
    [stats : {None, Some(NoStats), Some(FullStats), Some(NegStats)},
     sleep : {None, Some(NoSleep), Some(FullSleep)},
     vo2 : {None, Some(470)}]

\* The daily summary block: every column is overwritten from the summary.
ApplyStats(m, stats) ==
    IF stats = None THEN m
    ELSE LET summary == Val(stats)
         IN [m EXCEPT !.resting_hr = summary.restingHeartRate,
                      !.steps = summary.totalSteps,
                      !.active_calories = Some(OrZero(summary.activeKilocalories)),
                      !.moderate_intensity_minutes = summary.moderateIntensityMinutes,
                      !.vigorous_intensity_minutes = summary.vigorousIntensityMinutes,
                      !.stress_avg = summary.averageStressLevel,
                      !.body_battery_high = summary.bodyBatteryHighestValue]

\* The sleep block.
ApplySleep(m, sleep) ==
    IF sleep = None THEN m
    ELSE LET daily_sleep == Val(sleep)
         IN [m EXCEPT !.sleep_seconds = daily_sleep.sleepTimeSeconds,
                      !.deep_sleep_seconds = daily_sleep.deepSleepSeconds,
                      !.rem_sleep_seconds = daily_sleep.remSleepSeconds]

\* The VO2 max block: the column is assigned only when a value is found.
ApplyVo2(m, vo2) == IF Truthy(vo2) THEN [m EXCEPT !.vo2_max = vo2] ELSE m

\* Mutant of FindDailyMetric: the lookup never finds the row.
FindDailyMetric_Never(rows, uid, day) == 0

\* DailyMetric.query.filter_by(user_id=..., date=day).first(): the index of the
\* first matching row, 0 when there is none.
FindDailyMetric(rows, uid, day) ==
    LET hits == {i \in 1..Len(rows) :
                    rows[i].user_id = Some(uid) /\ rows[i].date = Some(day)}
    IN IF hits = {} THEN 0 ELSE CHOOSE i \in hits : \A j \in hits : i <= j

\* _sync_daily_metrics(client, user, day), the client answering with resp.
SyncDailyMetrics(day, resp) ==
    LET i == FindDailyMetric(daily_metrics, user.id, day)
        m0 == IF i # 0 THEN daily_metrics[i] ELSE NewDailyMetric(user.id, day)
    IN \E m1 \in {ApplyVo2(ApplySleep(ApplyStats(m0, resp.stats), resp.sleep), resp.vo2)} :
       \E m2 \in {CalculateScores(m1, user)} :
          /\ raised' = ScoresRaise(m1)
          /\ daily_metrics' =
                IF i # 0 THEN [daily_metrics EXCEPT ![i] = m2]
                ELSE IF ScoresRaise(m1) THEN daily_metrics
                ELSE Append(daily_metrics, m2)
          /\ UNCHANGED <<user, fp, metric, runs, prev, activities, today, response,
                         accounts, sync_logs, calls, selection>>

Init ==
    /\ user \in {[id |-> i, birth_year |-> b] : i \in UserIds, b \in BirthYears}
    /\ fp \in FpModes
    /\ daily_metrics = <<>>
    /\ metric = NewDailyMetric(user.id, 1)
    /\ prev = metric
    /\ runs = 0
    /\ raised = FALSE
    /\ activities = <<>>
    /\ today = NumDays
    /\ response = NoResponse
    /\ NoSync

Next ==
    \/ \E day \in Dates, resp \in GarminResponses : SyncDailyMetrics(day, resp)
    \/ \E activity_data \in ActivityInputs : SyncActivity(activity_data)

Spec == Init /\ [][Next]_vars

\* SpecActivity: the activity part of the sync alone.
NextActivity == \E activity_data \in ActivityInputs : SyncActivity(activity_data)

SpecActivity == Init /\ [][NextActivity]_vars

----------------------------------------------------------------------------
(* Calendar dates (Python's datetime.date), held as proleptic Gregorian    *)
(* ordinals: day 1 is 0001-01-01, a Monday.                                *)

\* datetime.MINYEAR and datetime.MAXYEAR: date(...) raises outside them.
MinYear == 1

MaxYear == 9999

IsLeap(y) == (y % 4 = 0 /\ y % 100 # 0) \/ y % 400 = 0

DaysInMonth(y, m) ==
    IF m = 2 THEN (IF IsLeap(y) THEN 29 ELSE 28)
    ELSE IF m \in {4, 6, 9, 11} THEN 30 ELSE 31

\* The days before 1 January of year y.
DaysBeforeYear(y) ==
    LET p == y - 1 IN 365 * p + p \div 4 - p \div 100 + p \div 400

\* The days of year y before the first of month m.
RECURSIVE DaysBeforeMonth(_, _)
DaysBeforeMonth(y, m) ==
    IF m = 1 THEN 0 ELSE DaysBeforeMonth(y, m - 1) + DaysInMonth(y, m - 1)

\* date(y, m, d).toordinal(), for a year in MinYear..MaxYear.
DateOrdinal(y, m, d) == DaysBeforeYear(y) + DaysBeforeMonth(y, m) + d

\* Whether an ordinal is a date the type can hold.
ValidOrdinal(n) == n >= 1 /\ n <= DateOrdinal(MaxYear, 12, 31)

\* d.year
YearOf(n) ==
    CHOOSE y \in (n \div 366)..(n \div 365 + 1) :
        DaysBeforeYear(y) < n /\ n <= DaysBeforeYear(y + 1)

\* d.month
MonthOf(n) ==
    LET y == YearOf(n)
        r == n - DaysBeforeYear(y)
    IN CHOOSE m \in 1..12 :
          DaysBeforeMonth(y, m) < r /\ r <= DaysBeforeMonth(y, m) + DaysInMonth(y, m)

\* d.day
DayOf(n) == n - DaysBeforeYear(YearOf(n)) - DaysBeforeMonth(YearOf(n), MonthOf(n))

\* d.weekday(): Monday is 0, Sunday is 6.
Weekday(n) == (n + 6) % 7

----------------------------------------------------------------------------
(* get_period_metrics.get_period_range.  The result is a record            *)
(* [ok, start, end]; ok is FALSE when the date arithmetic raises           *)
(* (ValueError or OverflowError), which aborts the request.                *)

RangeError == [ok |-> FALSE, start |-> 0, end |-> 0]

Range(start_date, end_date) == [ok |-> TRUE, start |-> start_date, end |-> end_date]

\* The two `while` loops of the month branch, one iteration per call.
RECURSIVE MonthLoops(_, _)
MonthLoops(target_month, target_year) ==
    IF target_month < 1 THEN MonthLoops(target_month + 12, target_year - 1)
    ELSE IF target_month > 12 THEN MonthLoops(target_month - 12, target_year + 1)
    ELSE <<target_year, target_month>>

\* The same loops when they run more than a hundred times: their k iterations
\* taken at once.
MonthLoopsFar(target_month, target_year) ==
    LET k == IF target_month >= 1 THEN (target_month - 1) \div 12
             ELSE -((12 - target_month) \div 12)
    IN <<target_year + k, target_month - 12 * k>>

\* Mutant of MonthRange: a single carry (`if`) instead of the `while` loops.
MonthRange_SingleCarry(off) ==
    LET m0 == MonthOf(today) + off
        target_month == IF m0 < 1 THEN m0 + 12 ELSE IF m0 > 12 THEN m0 - 12 ELSE m0
        target_year == IF m0 < 1 THEN YearOf(today) - 1
                       ELSE IF m0 > 12 THEN YearOf(today) + 1 ELSE YearOf(today)
    IN IF target_month < 1 \/ target_month > 12 THEN RangeError
       ELSE Range(DateOrdinal(target_year, target_month, 1),
                  DateOrdinal(target_year, target_month, 1)
                      + DaysInMonth(target_year, target_month) - 1)

\* ptype == 'month'
MonthRange(off) ==
    LET m0 == MonthOf(today) + off
        ym == IF m0 < -1200 \/ m0 > 1200 THEN MonthLoopsFar(m0, YearOf(today))
              ELSE MonthLoops(m0, YearOf(today))
        target_year == ym[1]
        target_month == ym[2]
    IN IF target_year < MinYear \/ target_year > MaxYear THEN RangeError
       ELSE IF target_month = 12
       THEN IF target_year + 1 > MaxYear THEN RangeError
            ELSE Range(DateOrdinal(target_year, target_month, 1),
                       DateOrdinal(target_year + 1, 1, 1) - 1)
       ELSE Range(DateOrdinal(target_year, target_month, 1),
                  DateOrdinal(target_year, target_month + 1, 1) - 1)

\* Mutant of WeekRange: the week is taken to start on Sunday.
WeekRange_FromSunday(off) ==
    LET start_of_week == today - ((Weekday(today) + 1) % 7)
        start_date == start_of_week + 7 * off
        end_date == start_date + 6
    IN IF ValidOrdinal(start_date) /\ ValidOrdinal(end_date)
       THEN Range(start_date, end_date) ELSE RangeError

\* ptype == 'week'
WeekRange(off) ==
    LET start_of_week == today - Weekday(today)
        start_date == start_of_week + 7 * off
        end_date == start_date + 6
    IN IF ValidOrdinal(start_of_week) /\ ValidOrdinal(start_date) /\ ValidOrdinal(end_date)
       THEN Range(start_date, end_date) ELSE RangeError

\* ptype == 'day'
DayRange(off) ==
    LET target_date == today + off
    IN IF ValidOrdinal(target_date) THEN Range(target_date, target_date) ELSE RangeError

\* ptype == 'year' (the else branch)
YearRange(off) ==
    LET target_year == YearOf(today) + off
    IN IF target_year < MinYear \/ target_year > MaxYear THEN RangeError
       ELSE Range(DateOrdinal(target_year, 1, 1), DateOrdinal(target_year, 12, 31))

\* get_period_range(ptype, off)
GetPeriodRange(ptype, off) ==
    IF ptype = "day" THEN DayRange(off)
    ELSE IF ptype = "week" THEN WeekRange(off)
    ELSE IF ptype = "month" THEN MonthRange(off)
    ELSE YearRange(off)

----------------------------------------------------------------------------
(* Queries and aggregates of the API handlers (src/app/__init__.py).  A    *)
(* list of nullable numbers is a sequence of None / <<q>>, q a rational.   *)

\* DailyMetric.query.filter(user_id == current_user.id, date >= start_date,
\* date <= end_date).all()
MetricsBetween(start_date, end_date) ==
    SelectSeq(daily_metrics,
              LAMBDA m : /\ m.user_id = Some(user.id)
                         /\ Val(m.date) >= start_date
                         /\ Val(m.date) <= end_date)

\* DailyMetric.query.filter(user_id == current_user.id, date >= start_date).all()
MetricsSince(start_date) ==
    SelectSeq(daily_metrics,
              LAMBDA m : m.user_id = Some(user.id) /\ Val(m.date) >= start_date)

\* Activity.query.filter(user_id == current_user.id, start_time >= start 00:00,
\* start_time <= end 23:59:59.999999).all(); a NULL start_time matches nothing.
ActivitiesBetween(start_date, end_date) ==
    SelectSeq(activities,
              LAMBDA a : /\ a.user_id = Some(user.id)
                         /\ a.start_time # None
                         /\ Val(a.start_time) >= start_date
                         /\ Val(a.start_time) <= end_date)

\* Activity.query.filter(user_id == current_user.id, start_time >= start 00:00).all()
ActivitiesSince(start_date) ==
    SelectSeq(activities,
              LAMBDA a : /\ a.user_id = Some(user.id)
                         /\ a.start_time # None
                         /\ Val(a.start_time) >= start_date)

\* .order_by(DailyMetric.date.asc()): the dates of one user's rows are distinct.
OrderByDateAsc(rows) ==
    [i \in 1..Len(rows) |->
        rows[CHOOSE k \in 1..Len(rows) :
                Cardinality({j \in 1..Len(rows) :
                                Val(rows[j].date) < Val(rows[k].date)}) = i - 1]]

\* [x for x in lst if x is not None]
NotNone(lst) == SelectSeq(lst, LAMBDA x : x # None)

\* sum(vals) of a list of <<q>>; the exact sum does not depend on the order of
\* the additions.
RECURSIVE SumVals(_)
SumVals(vals) ==
    IF vals = <<>> THEN RInt(0)
    ELSE IF Len(vals) = 1 THEN Val(vals[1])
    ELSE LET h == Len(vals) \div 2
         IN RAdd(SumVals(SubSeq(vals, 1, h)), SumVals(SubSeq(vals, h + 1, Len(vals))))

\* avg / safe_avg: round(sum(vals) / len(vals), 1) if vals else None, in tenths.
Avg1(lst) ==
    LET vals == NotNone(lst)
    IN IF vals = <<>> THEN None
       ELSE Some(Round1(RDiv(SumVals(vals), RInt(Len(vals)))))

\* total: sum(vals) if vals else 0
Total(lst) == LET vals == NotNone(lst) IN IF vals = <<>> THEN RInt(0) ELSE SumVals(vals)

\* [m.<column> for m in metrics], an integer column.
Column(metrics, f) ==
    [i \in 1..Len(metrics) |->
        IF metrics[i][f] = None THEN None ELSE Some(RInt(Val(metrics[i][f])))]

\* The same for a float column the model holds in tenths.
ColumnTenths(metrics, f) ==
    [i \in 1..Len(metrics) |->
        IF metrics[i][f] = None THEN None ELSE Some(Rat(Val(metrics[i][f]), 10))]

\* [m.sleep_seconds / 3600 if m.sleep_seconds else None for m in metrics]
SleepHoursColumn(metrics) ==
    [i \in 1..Len(metrics) |->
        IF Truthy(metrics[i].sleep_seconds)
        THEN Some(Rat(Val(metrics[i].sleep_seconds), 3600)) ELSE None]

----------------------------------------------------------------------------
(* GET /api/metrics/period                                                 *)

\* calc_metrics(start_date, end_date)
CalcMetrics(start_date, end_date) ==
    LET metrics == MetricsBetween(start_date, end_date)
    IN [days_with_data |-> Len(metrics),
        rhr |-> Avg1(Column(metrics, "resting_hr")),
        sleep_hours |-> Avg1(SleepHoursColumn(metrics)),
        stress_avg |-> Avg1(Column(metrics, "stress_avg")),
        steps_avg |-> Avg1(Column(metrics, "steps")),
        steps_total |-> Total(Column(metrics, "steps"))[1],
        active_calories |-> Total(Column(metrics, "active_calories"))[1],
        body_battery_high |-> Avg1(Column(metrics, "body_battery_high")),
        recovery |-> Avg1(Column(metrics, "recovery_score")),
        strain |-> Avg1(ColumnTenths(metrics, "strain_score")),
        activity_count |-> Len(ActivitiesBetween(start_date, end_date))]

\* One element of `previous`.
PreviousPeriod(ptype, off) ==
    LET r == GetPeriodRange(ptype, off)
    IN [start |-> r.start, end |-> r.end, metrics |-> CalcMetrics(r.start, r.end)]

\* Mutant of PreviousOffsets: the comparison periods start at the requested one.
PreviousOffsets_FromCurrent(offset) == <<offset, offset - 1, offset - 2>>

\* for i in range(1, 4): offset - i
PreviousOffsets(offset) == <<offset - 1, offset - 2, offset - 3>>

\* The body of the response; status 500 when get_period_range raises.
PeriodResponse(ptype, offset) ==
    LET cur == GetPeriodRange(ptype, offset)
        offs == PreviousOffsets(offset)
    IN IF ~cur.ok \/ \E i \in 1..Len(offs) : ~GetPeriodRange(ptype, offs[i]).ok
       THEN [op |-> "period", status |-> 500, type |-> ptype, offset |-> offset]
       ELSE [op |-> "period", status |-> 200, type |-> ptype, offset |-> offset,
             start |-> cur.start, end |-> cur.end,
             days_total |-> cur.end - cur.start + 1,
             days_with_data |-> CalcMetrics(cur.start, cur.end).days_with_data,
             metrics |-> CalcMetrics(cur.start, cur.end),
             previous |-> [i \in 1..Len(offs) |-> PreviousPeriod(ptype, offs[i])]]

\* get_period_metrics(current_user) with ?type=ptype&offset=offset
GetPeriodMetrics(ptype, offset) ==
    /\ response' = PeriodResponse(ptype, offset)
    /\ UNCHANGED <<user, fp, daily_metrics, metric, runs, prev, raised, activities, today,
                   accounts, sync_logs, calls, selection>>

----------------------------------------------------------------------------
(* GET /api/metrics/summary                                                *)

\* get_summary(current_user) with ?days=days
SummaryResponse(days) ==
    LET metrics == MetricsSince(today - days)
    IN IF metrics = <<>> THEN [op |-> "summary", status |-> 404]
       ELSE [op |-> "summary", status |-> 200, start |-> today - days,
             days_with_data |-> Len(metrics),
             recovery |-> Avg1(Column(metrics, "recovery_score")),
             strain |-> Avg1(ColumnTenths(metrics, "strain_score")),
             sleep_hours |-> Avg1(SleepHoursColumn(metrics)),
             biological_age |-> Avg1(ColumnTenths(metrics, "biological_age")),
             resting_hr |-> Avg1(Column(metrics, "resting_hr")),
             steps |-> Avg1(Column(metrics, "steps"))]

GetSummary(days) ==
    /\ response' = SummaryResponse(days)
    /\ UNCHANGED <<user, fp, daily_metrics, metric, runs, prev, raised, activities, today,
                   accounts, sync_logs, calls, selection>>

----------------------------------------------------------------------------
(* GET /api/metrics/trend                                                  *)

\* The least number of rows of the series for a pace of aging.
TrendMinDays == 30

\* The number of rows in each half: metrics[-15:] and metrics[:15].
TrendHalf == 15

\* [m.biological_age for m in rows if m.biological_age], as years.
BioAges(rows) ==
    NotNone([i \in 1..Len(rows) |->
                IF Truthy(rows[i].biological_age)
                THEN Some(Rat(Val(rows[i].biological_age), 10)) ELSE None])

\* metrics[-15:]
LastRows(metrics) ==
    SubSeq(metrics, Max(1, Len(metrics) - TrendHalf + 1), Len(metrics))

\* metrics[:15]
FirstRows(metrics) == SubSeq(metrics, 1, Min(TrendHalf, Len(metrics)))

\* sum(vals) / len(vals)
Mean(vals) == RDiv(SumVals(vals), RInt(Len(vals)))

\* sum(recent)/len(recent) - sum(older)/len(older)
TrendDiff(metrics) ==
    RAdd(Mean(BioAges(LastRows(metrics))),
         RMul(RInt(-1), Mean(BioAges(FirstRows(metrics)))))

\* The factor the trend applies to the difference.
TrendPaceScale == 12

\* Mutant of TrendPace: the pace is computed for a series of any length.
TrendPace_NoMinimum(metrics) ==
    IF BioAges(LastRows(metrics)) # <<>> /\ BioAges(FirstRows(metrics)) # <<>>
    THEN Some(Round1(RMul(TrendDiff(metrics), RInt(TrendPaceScale))))
    ELSE None

\* pace, in tenths of a year per year.
TrendPace(metrics) ==
    IF Len(metrics) >= TrendMinDays
    THEN IF BioAges(LastRows(metrics)) # <<>> /\ BioAges(FirstRows(metrics)) # <<>>
         THEN Some(Round1(RMul(TrendDiff(metrics), RInt(TrendPaceScale))))
         ELSE None
    ELSE None

\* The series of the trend: the user's rows since today - days, oldest first.
TrendMetrics(days) == OrderByDateAsc(MetricsSince(today - days))

\* get_trend(current_user) with ?days=days
TrendResponse(days) ==
    LET metrics == TrendMetrics(days)
    IN [op |-> "trend", status |-> 200, days |-> days,
        data |-> [i \in 1..Len(metrics) |->
                    [date |-> Val(metrics[i].date),
                     biological_age |-> metrics[i].biological_age]],
        real_age |-> GetRealAge(user),
        pace_of_aging |-> TrendPace(metrics)]

GetTrend(days) ==
    /\ response' = TrendResponse(days)
    /\ UNCHANGED <<user, fp, daily_metrics, metric, runs, prev, raised, activities, today,
                   accounts, sync_logs, calls, selection>>

----------------------------------------------------------------------------
(* GET /api/metrics/healthspan.  Impacts are None or <<q>>.                *)

\* avg: sum(vals) / len(vals) if vals else None, not rounded.
AvgR(lst) ==
    LET vals == NotNone(lst) IN IF vals = <<>> THEN None ELSE Some(Mean(vals))

\* `if avg_x:` for a nullable float
TruthyR(x) == x # None /\ Val(x)[1] # 0

\* abs(x - y)
RAbsDiff(x, y) ==
    LET d == RAdd(x, RMul(RInt(-1), y)) IN IF d[1] < 0 THEN RMul(RInt(-1), d) ELSE d

\* [m.<column> for m in metrics if m.<column>]
TruthyColumn(metrics, f) ==
    [i \in 1..Len(metrics) |->
        IF Truthy(metrics[i][f]) THEN Some(RInt(Val(metrics[i][f]))) ELSE None]

\* The same for vo2_max, which the model holds in tenths.
TruthyVo2Column(metrics) ==
    [i \in 1..Len(metrics) |->
        IF Truthy(metrics[i].vo2_max) THEN Some(Rat(Val(metrics[i].vo2_max), 10)) ELSE None]

\* 1. sleep duration
HsSleepImpact(metrics) ==
    LET avg_sleep == AvgR(SleepHoursColumn(metrics))
    IN IF TruthyR(avg_sleep)
       THEN LET a == Val(avg_sleep)
            IN IF RLe(RInt(7), a) /\ RLe(a, Rat(85, 10)) THEN Some(Rat(-4, 10))
               ELSE IF RLe(RInt(6), a) \/ RLe(a, Rat(95, 10))
               THEN Some(RMin(Rat(3, 10), RMul(RAbsDiff(a, Rat(75, 10)), Rat(2, 10))))
               ELSE Some(RMin(Rat(5, 10), RMul(RAbsDiff(a, Rat(75, 10)), Rat(25, 100))))
       ELSE None

\* sum of the seconds in the zones zs over the activities, per week of 26 weeks,
\* in minutes.
RECURSIVE ZoneSeconds(_, _)
ZoneSeconds(acts, zs) ==
    IF acts = <<>> THEN 0
    ELSE (IF "hr_zone_1" \in zs THEN OrZero(Head(acts).hr_zone_1) ELSE 0)
         + (IF "hr_zone_2" \in zs THEN OrZero(Head(acts).hr_zone_2) ELSE 0)
         + (IF "hr_zone_3" \in zs THEN OrZero(Head(acts).hr_zone_3) ELSE 0)
         + (IF "hr_zone_4" \in zs THEN OrZero(Head(acts).hr_zone_4) ELSE 0)
         + (IF "hr_zone_5" \in zs THEN OrZero(Head(acts).hr_zone_5) ELSE 0)
         + ZoneSeconds(Tail(acts), zs)

WeeklyMinutes(acts, zs) == Rat(ZoneSeconds(acts, zs), 60 * 26)

\* 2. HR zones 1-3
HsZoneLowImpact(acts) ==
    LET weekly_low == WeeklyMinutes(acts, {"hr_zone_1", "hr_zone_2", "hr_zone_3"})
    IN IF RLt(RInt(0), weekly_low) \/ Len(acts) > 0
       THEN Some(IF RLe(RInt(150), weekly_low) THEN Rat(-8, 10)
                 ELSE IF RLe(RInt(100), weekly_low) THEN Rat(-5, 10)
                 ELSE IF RLe(RInt(50), weekly_low) THEN Rat(-2, 10)
                 ELSE Rat(25, 100))
       ELSE None

\* 3. HR zones 4-5
HsZoneHighImpact(acts) ==
    LET weekly_high == WeeklyMinutes(acts, {"hr_zone_4", "hr_zone_5"})
    IN IF RLt(RInt(0), weekly_high) \/ Len(acts) > 0
       THEN Some(IF RLe(RInt(75), weekly_high) THEN Rat(-8, 10)
                 ELSE IF RLe(RInt(50), weekly_high) THEN Rat(-5, 10)
                 ELSE IF RLe(RInt(25), weekly_high) THEN Rat(-2, 10)
                 ELSE Rat(25, 100))
       ELSE None

\* a.activity_type and 'strength' in a.activity_type.lower()
IsStrength(a) == a.activity_type = Some("strength_training")

\* 4. strength sessions
HsStrengthImpact(acts) ==
    LET strength_weekly == Rat(Len(SelectSeq(acts, IsStrength)), 26)
    IN IF Len(acts) > 0
       THEN Some(IF RLe(RInt(2), strength_weekly) THEN Rat(-6, 10)
                 ELSE IF RLe(RInt(1), strength_weekly) THEN Rat(-3, 10)
                 ELSE Rat(2, 10))
       ELSE None

\* 5. daily steps
HsStepsImpact(metrics) ==
    LET avg_steps == AvgR(TruthyColumn(metrics, "steps"))
    IN IF TruthyR(avg_steps)
       THEN LET a == Val(avg_steps)
            IN Some(IF RLe(RInt(12000), a) THEN Rat(-7, 10)
                    ELSE IF RLe(RInt(10000), a) THEN Rat(-5, 10)
                    ELSE IF RLe(RInt(8000), a) THEN Rat(-3, 10)
                    ELSE IF RLe(RInt(6000), a) THEN Rat(-1, 10)
                    ELSE IF RLe(RInt(4000), a) THEN Rat(15, 100)
                    ELSE Rat(35, 100))
       ELSE None

\* 6. resting heart rate (also the recent one of the pace)
HsRhrImpact(metrics) ==
    LET avg_rhr == AvgR(TruthyColumn(metrics, "resting_hr"))
    IN IF TruthyR(avg_rhr)
       THEN LET a == Val(avg_rhr)
            IN Some(IF RLt(a, RInt(55)) THEN Rat(-5, 10)
                    ELSE IF RLt(a, RInt(60)) THEN Rat(-3, 10)
                    ELSE IF RLt(a, RInt(70)) THEN RInt(0)
                    ELSE IF RLt(a, RInt(80)) THEN Rat(25, 100)
                    ELSE Rat(4, 10))
       ELSE None

\* 7. VO2 max
HsVo2Impact(metrics) ==
    LET avg_vo2 == AvgR(TruthyVo2Column(metrics))
    IN IF TruthyR(avg_vo2)
       THEN LET a == Val(avg_vo2)
            IN Some(IF RLt(RInt(55), a) THEN Rat(-7, 10)
                    ELSE IF RLt(RInt(50), a) THEN Rat(-5, 10)
                    ELSE IF RLt(RInt(45), a) THEN Rat(-3, 10)
                    ELSE IF RLt(RInt(40), a) THEN RInt(0)
                    ELSE IF RLt(RInt(35), a) THEN Rat(2, 10)
                    ELSE Rat(4, 10))
       ELSE None

\* raw_impacts.values()
HsRawImpacts(metrics, acts) ==
    NotNone(<<HsSleepImpact(metrics), HsZoneLowImpact(acts), HsZoneHighImpact(acts),
              HsStrengthImpact(acts), HsStepsImpact(metrics), HsRhrImpact(metrics),
              HsVo2Impact(metrics)>>)

\* MAX_YEARS of get_healthspan_age
HsMaxYears == 8

\* healthspan_age = round(real_age + avg_impact * MAX_YEARS, 1), in tenths.
HealthspanAge(metrics, acts) ==
    Round1(RAdd(RInt(GetRealAge(user)),
                RMul(Mean(HsRawImpacts(metrics, acts)), RInt(HsMaxYears))))

\* recent_raw['sleep']
RecentSleepImpact(recent_metrics) ==
    LET recent_sleep == AvgR(SleepHoursColumn(recent_metrics))
    IN IF TruthyR(recent_sleep)
       THEN LET a == Val(recent_sleep)
            IN IF RLe(RInt(7), a) /\ RLe(a, Rat(85, 10)) THEN Some(Rat(-4, 10))
               ELSE Some(RMin(Rat(4, 10), RMul(RAbsDiff(a, Rat(75, 10)), Rat(2, 10))))
       ELSE None

\* recent_raw['steps']
RecentStepsImpact(recent_metrics) ==
    LET recent_steps == AvgR(TruthyColumn(recent_metrics, "steps"))
    IN IF TruthyR(recent_steps)
       THEN LET a == Val(recent_steps)
            IN Some(IF RLe(RInt(10000), a) THEN Rat(-5, 10)
                    ELSE IF RLe(RInt(8000), a) THEN Rat(-3, 10)
                    ELSE IF RLe(RInt(6000), a) THEN Rat(-1, 10)
                    ELSE IF RLe(RInt(4000), a) THEN Rat(15, 100)
                    ELSE Rat(35, 100))
       ELSE None

\* recent_raw.values()
RecentRaw(recent_metrics) ==
    NotNone(<<RecentSleepImpact(recent_metrics), RecentStepsImpact(recent_metrics),
              HsRhrImpact(recent_metrics)>>)

\* age_diff = recent_age - healthspan_age, recent_age = real_age + recent_avg * MAX_YEARS
HealthspanAgeDiff(metrics, acts, recent_metrics) ==
    RAdd(RAdd(RInt(GetRealAge(user)),
              RMul(Mean(RecentRaw(recent_metrics)), RInt(HsMaxYears))),
         RMul(RInt(-1), Rat(HealthspanAge(metrics, acts), 10)))

\* The factor the healthspan applies to the difference.
HealthspanPaceScale == Rat(8, 10)

\* max(-1.0, min(1.0, pace)), in hundredths.
ClampPace(pace) == Max(-100, Min(100, pace))

\* pace, in hundredths.
HealthspanPace(metrics, acts) ==
    LET recent_metrics == SelectSeq(metrics, LAMBDA m : Val(m.date) >= today - 30)
    IN IF Len(recent_metrics) >= 7 /\ Len(RecentRaw(recent_metrics)) >= 2
       THEN Some(ClampPace(Round2(RMul(HealthspanAgeDiff(metrics, acts, recent_metrics),
                                       HealthspanPaceScale))))
       ELSE None

\* get_healthspan_age(current_user)
HealthspanResponse ==
    LET metrics == MetricsSince(today - 180)
        acts == ActivitiesSince(today - 180)
    IN IF Len(metrics) < 30
       THEN [op |-> "healthspan", status |-> 400, days |-> Len(metrics)]
       ELSE IF Len(HsRawImpacts(metrics, acts)) < 2
       THEN [op |-> "healthspan", status |-> 400,
             metrics_found |-> Len(HsRawImpacts(metrics, acts))]
       ELSE [op |-> "healthspan", status |-> 200,
             healthspan_age |-> HealthspanAge(metrics, acts),
             real_age |-> GetRealAge(user),
             metrics_used |-> Len(HsRawImpacts(metrics, acts)),
             pace_of_aging |-> HealthspanPace(metrics, acts),
             days_analyzed |-> Len(metrics),
             activities_analyzed |-> Len(acts)]

GetHealthspanAge ==
    /\ response' = HealthspanResponse
    /\ UNCHANGED <<user, fp, daily_metrics, metric, runs, prev, raised, activities, today,
                   accounts, sync_logs, calls, selection>>

----------------------------------------------------------------------------
(* SpecApi: the read-only API of one logged-in user over tables that the   *)
(* sync has filled: every DailyMetric row went through _calculate_scores.  *)

\* The days on which the requests are made: a Friday, a Thursday that ends the
\* year, a Sunday that starts a month, and a Monday.
TodayDates ==
    {DateOrdinal(CurrentYear, 11, 6), DateOrdinal(CurrentYear, 12, 31),
     DateOrdinal(CurrentYear, 3, 1), DateOrdinal(CurrentYear, 1, 5)}

\* The row of `day` as the sync stores it.
ScoredRow(uid, day, raw) == CalculateScores(WithRaw(NewDailyMetric(uid, day), raw), user)

\* Telemetry of a day in good shape and of a day in bad shape.
GoodDay ==
    [NoRaw EXCEPT !.body_battery_high = Some(80), !.resting_hr = Some(50),
                  !.sleep_seconds = Some(27000), !.deep_sleep_seconds = Some(5400),
                  !.rem_sleep_seconds = Some(6300), !.steps = Some(12000),
                  !.active_calories = Some(450), !.vo2_max = Some(470),
                  !.stress_avg = Some(40), !.moderate_intensity_minutes = Some(20)]

BadDay ==
    [NoRaw EXCEPT !.resting_hr = Some(80), !.sleep_seconds = Some(18000),
                  !.steps = Some(1500), !.vo2_max = Some(300),
                  !.stress_avg = Some(70), !.active_calories = Some(200)]

SeriesKinds == {"steady", "aging", "younger", "recent_blank", "older_blank", "sparse"}

\* The telemetry of the i-th oldest of n days of a series: 1 is a good day, 2 a
\* bad day, 3 a day without telemetry.
SeriesRaw(kind, i, n) ==
    CASE kind = "steady" -> 1
      [] kind = "aging" -> IF 2 * i <= n THEN 1 ELSE 2
      [] kind = "younger" -> IF 2 * i <= n THEN 2 ELSE 1
      [] kind = "recent_blank" -> IF i > n - TrendHalf THEN 3 ELSE 1
      [] kind = "older_blank" -> IF i <= TrendHalf THEN 3 ELSE 2
      [] OTHER -> IF i % 2 = 0 THEN 3 ELSE IF 2 * i <= n THEN 1 ELSE 2

SeriesLengths == {TrendMinDays - 1, TrendMinDays, TrendMinDays + 1}

\* A series of n rows, one every third day up to today, newest row first.
SeriesTable(scored, kind, n) ==
    [j \in 1..n |->
        [scored[SeriesRaw(kind, n - j + 1, n)]
            EXCEPT !.date = Some(today - 3 * (j - 1))]]

\* The rows of a good day, of a bad day and of a day without telemetry.
ScoredDays ==
    <<ScoredRow(user.id, today, GoodDay), ScoredRow(user.id, today, BadDay),
      ScoredRow(user.id, today, NoRaw)>>

\* Three days with gaps, and a row of another user.
GapsTable ==
    <<ScoredRow(user.id, today - 2,
                [NoRaw EXCEPT !.steps = Some(8000), !.sleep_seconds = Some(27000),
                              !.resting_hr = Some(50), !.active_calories = Some(300)]),
      ScoredRow(user.id + 1, today, [NoRaw EXCEPT !.steps = Some(500)]),
      ScoredRow(user.id, today - 1,
                [NoRaw EXCEPT !.sleep_seconds = Some(0), !.stress_avg = Some(0)]),
      ScoredRow(user.id, today,
                [NoRaw EXCEPT !.steps = Some(10000), !.resting_hr = Some(55),
                              !.stress_avg = Some(41)])>>

MetricTables(scored) ==
    {<<>>, GapsTable}
    \cup {SeriesTable(scored, kind, n) : kind \in SeriesKinds, n \in SeriesLengths}

\* Two activities of the user: strength training yesterday, a run 40 days ago.
ActivityTables ==
    {<<>>,
     <<NewActivity(user.id,
                   [NoActivityData EXCEPT !.activityId = Some(101),
                                          !.typeKey = Some("strength_training"),
                                          !.startTimeLocal = Some(today - 1),
                                          !.duration = Some(3600),
                                          !.anaerobicTrainingEffect = Some(20),
                                          !.hrTimeInZone_2 = Some(1800),
                                          !.hrTimeInZone_5 = Some(600)]),
       NewActivity(user.id,
                   [NoActivityData EXCEPT !.activityId = Some(102),
                                          !.typeKey = Some("running"),
                                          !.startTimeLocal = Some(today - 40),
                                          !.duration = Some(5430),
                                          !.aerobicTrainingEffect = Some(30),
                                          !.hrTimeInZone_3 = Some(2400),
                                          !.hrTimeInZone_4 = Some(1230)])>>}

InitApi ==
    /\ user \in {[id |-> i, birth_year |-> b] : i \in UserIds, b \in BirthYears}
    /\ fp \in FpModes
    /\ today \in TodayDates
    /\ \E scored \in {ScoredDays} : daily_metrics \in MetricTables(scored)
    /\ activities \in ActivityTables
    /\ metric = NewDailyMetric(user.id, 1)
    /\ prev = metric
    /\ runs = 0
    /\ raised = FALSE
    /\ response = NoResponse
    /\ NoSync

\* ?type=
PeriodTypes == {"day", "week", "month", "year"}

\* ?offset=: near offsets that cross year ends and reach the Februaries of 2024
\* and 2028, and far ones that leave the years a date can hold.
Offsets == {-30000, -34, -33, -25, -14, -12, -11, -3, -1, 0, 1, 2, 14, 15, 23, 96000}

\* ?days=
SummaryDays == {7, 30}

TrendDays == {30, 90}

\* One request per behaviour: the handlers read the tables and never write
\* them, so a later request is answered as it would be from the initial state.
NextApi ==
    /\ response = NoResponse
    /\ \/ \E ptype \in PeriodTypes, offset \in Offsets : GetPeriodMetrics(ptype, offset)
       \/ \E days \in SummaryDays : GetSummary(days)
       \/ \E days \in TrendDays : GetTrend(days)
       \/ GetHealthspanAge

SpecApi == InitApi /\ [][NextApi]_vars

----------------------------------------------------------------------------
(* sync_user and its callers.  A caller is the manual request /api/sync or *)
(* the scheduled job run_sync -> sync_all_users; each works in its own     *)
(* database session.  A session sees the committed rows and its own        *)
(* pending changes; commit writes the pending changes, and a row that      *)
(* breaks a unique constraint makes the commit raise and the transaction   *)
(* roll back.  The model sends the pending INSERTs at commit, the latest   *)
(* point at which the session flushes them.  datetime.utcnow() is held as  *)
(* the id of the SyncLog of the run, which grows with time.                *)

Callers == {"manual", "scheduler"}

\* sync_user(self, user, days_back: int = 7, offset_days: int = 0)
DefaultDaysBack == 7

DefaultOffsetDays == 0

\* A value of a Garmin payload that is not a number (a string), held in an
\* integer column as this marker.
NonNumeric == -999999

IsNonNumeric(x) == x = Some(NonNumeric)

\* A row of the users table, as far as the sync reads and writes it.
Account(birth_year, garmin_email, has_password, sync_enabled) ==
    [birth_year |-> birth_year, garmin_email |-> garmin_email,
     has_password |-> has_password, sync_enabled |-> sync_enabled,
     last_sync |-> None]

\* result = {'success': False, 'metrics_synced': 0, 'activities_synced': 0, 'errors': []}
NewResult ==
    [success |-> FALSE, metrics_synced |-> 0, activities_synced |-> 0, errors |-> <<>>]

\* SyncLog(user_id=user.id, status='running')
NewSyncLog(uid) ==
    [user_id |-> uid, status |-> "running", finished_at |-> None,
     error_message |-> <<>>, metrics_synced |-> 0, activities_synced |-> 0]

\* db.session of a fresh application context: nothing pending.  dirty_metrics
\* holds the changed copies of committed rows as [at |-> index, row |-> row].
NewSession ==
    [ok |-> TRUE, new_metrics |-> <<>>, dirty_metrics |-> <<>>, new_activities |-> <<>>]

\* A caller that is not running.  client is whether client.login() has returned.
IdleCall ==
    [pc |-> "idle", user_id |-> 0, days_back |-> 0, offset_days |-> 0, i |-> 0,
     log |-> 0, client |-> FALSE, result |-> NewResult, session |-> NewSession,
     n |-> 0,
     users |-> <<>>, results |-> <<>>]

\* The copy of committed row k that the session holds, the committed row if
\* the session has not changed it.
SessionRow(session, k) ==
    LET hits == {j \in 1..Len(session.dirty_metrics) : session.dirty_metrics[j].at = k}
    IN IF hits = {} THEN daily_metrics[k]
       ELSE session.dirty_metrics[CHOOSE j \in hits : TRUE].row

\* DailyMetric.query as the session sees the table: the committed rows with the
\* session's changes, then the rows it has added.
SessionMetrics(session) ==
    [k \in 1..Len(daily_metrics) |-> SessionRow(session, k)] \o session.new_metrics

\* The session after the attributes of the row at index k of SessionMetrics
\* were assigned: a committed row becomes dirty, an added row changes in place.
WithChangedRow(session, k, row) ==
    IF k <= Len(daily_metrics)
    THEN [session EXCEPT !.dirty_metrics =
            SelectSeq(@, LAMBDA d : d.at # k) \o <<[at |-> k, row |-> row]>>]
    ELSE [session EXCEPT !.new_metrics[k - Len(daily_metrics)] = row]

\* The unique constraints: unique_user_date on daily_metrics and unique on
\* activities.garmin_activity_id.  Whether the INSERTs of the session break one.
BreaksUnique(session) ==
    \/ \E j \in 1..Len(session.new_metrics), k \in 1..Len(daily_metrics) :
          /\ daily_metrics[k].user_id = session.new_metrics[j].user_id
          /\ daily_metrics[k].date = session.new_metrics[j].date
    \/ \E j \in 1..Len(session.new_activities), k \in 1..Len(activities) :
          activities[k].garmin_activity_id = session.new_activities[j].garmin_activity_id

\* daily_metrics after the session's commit.
CommittedMetrics(session) ==
    [k \in 1..Len(daily_metrics) |-> SessionRow(session, k)] \o session.new_metrics

\* The call when sync_user ends.  sync_now hands the result back (or fails with
\* the exception); sync_all_users records one entry for the user and goes on.
\* The entry also notes the SyncLog the call created (0: none) and whether the
\* entry comes from the except branch.
EndCall(c, call, raises) ==
    IF c = "scheduler"
    THEN [call EXCEPT !.pc = "loop",
                      !.results = Append(@, [user_id |-> call.user_id,
                                             log |-> call.log,
                                             raised |-> raises,
                                             success |-> ~raises /\ call.result.success,
                                             metrics_synced |-> call.result.metrics_synced,
                                             activities_synced |-> call.result.activities_synced])]
    ELSE [call EXCEPT !.pc = IF raises THEN "raised" ELSE "returned"]

\* db.session.commit() raising: the transaction is rolled back, the session
\* stays unusable until rollback() is called, and the exception leaves sync_user.
CommitRaises(c, call) ==
    /\ calls' = [calls EXCEPT ![c] =
                    EndCall(c, [call EXCEPT !.session = [NewSession EXCEPT !.ok = FALSE]], TRUE)]
    /\ UNCHANGED <<sync_logs, daily_metrics, activities, accounts>>

\* Mutant of Fail: the failed sync stamps user.last_sync.
Fail_StampsLastSync(c, call, logs, error) ==
    /\ sync_logs' = [logs EXCEPT ![call.log].status = "error",
                                 ![call.log].error_message = <<error>>,
                                 ![call.log].finished_at = Some(call.log)]
    /\ accounts' = [accounts EXCEPT ![call.user_id].last_sync = Some(call.log)]
    /\ calls' = [calls EXCEPT ![c] =
                    EndCall(c, [call EXCEPT !.result.errors = Append(@, error),
                                            !.session = NewSession], FALSE)]
    /\ UNCHANGED <<daily_metrics, activities>>

\* except Exception as e (lines 86-89), finally (91-93) and return, on the
\* sync_logs table `logs`.  The rows the session holds are committed with the log.
Fail(c, call, logs, error) ==
    IF BreaksUnique(call.session) THEN CommitRaises(c, call)
    ELSE /\ sync_logs' = [logs EXCEPT ![call.log].status = "error",
                                      ![call.log].error_message = <<error>>,
                                      ![call.log].finished_at = Some(call.log)]
         /\ daily_metrics' = CommittedMetrics(call.session)
         /\ activities' = activities \o call.session.new_activities
         /\ calls' = [calls EXCEPT ![c] =
                         EndCall(c, [call EXCEPT !.result.errors = Append(@, error),
                                                 !.session = NewSession], FALSE)]
         /\ UNCHANGED accounts

\* What is left unchanged by every step of a sync.
SyncFrame ==
    UNCHANGED <<user, fp, metric, runs, prev, raised, today, response, selection>>

\* sync_user up to the login (lines 30-48), called by c for user uid.
BeginSync(c, call0, uid, days_back, offset_days, login_ok) ==
    LET u == accounts[uid]
        logs == Append(sync_logs, NewSyncLog(uid))
        call == [call0 EXCEPT !.user_id = uid, !.days_back = days_back,
                              !.offset_days = offset_days, !.i = 0, !.n = @ + 1,
                              !.log = Len(logs), !.client = FALSE,
                              !.result = NewResult]
    IN IF ~call0.session.ok THEN CommitRaises(c, [call EXCEPT !.log = 0])
       ELSE IF ~u.garmin_email \/ ~u.has_password
       THEN Fail(c, call, logs, [kind |-> "credentials", ref |-> 0])
       ELSE IF ~login_ok THEN Fail(c, call, logs, [kind |-> "login", ref |-> 0])
       ELSE /\ sync_logs' = logs
            /\ calls' = [calls EXCEPT ![c] = [call EXCEPT !.pc = "days", !.client = TRUE]]
            /\ UNCHANGED <<daily_metrics, activities, accounts>>

\* How many sync_user calls the manual caller makes.
MaxSyncs == 2

\* POST /api/sync by user uid with the JSON body {days_back, offset_days}.
SyncNow(uid, days_back, offset_days, login_ok) ==
    /\ calls["manual"].pc \in {"idle", "returned", "raised", "rejected"}
    /\ calls["manual"].n < MaxSyncs
    /\ IF ~accounts[uid].garmin_email
       THEN /\ calls' = [calls EXCEPT !["manual"] =
                            [IdleCall EXCEPT !.pc = "rejected", !.user_id = uid,
                                             !.n = calls["manual"].n]]
            /\ UNCHANGED <<sync_logs, daily_metrics, activities, accounts>>
       ELSE BeginSync("manual", [IdleCall EXCEPT !.n = calls["manual"].n],
                      uid, days_back, offset_days, login_ok)
    /\ SyncFrame

\* User.query.filter_by(sync_enabled=True).all(), in id order.
RECURSIVE EnabledFrom(_)
EnabledFrom(uid) ==
    IF uid \notin DOMAIN accounts THEN <<>>
    ELSE (IF accounts[uid].sync_enabled THEN <<uid>> ELSE <<>>) \o EnabledFrom(uid + 1)

\* run_sync -> sync_all_users: the application context and the user query.
RunSync ==
    /\ calls["scheduler"].pc = "idle"
    /\ calls' = [calls EXCEPT !["scheduler"] =
                    [IdleCall EXCEPT !.pc = "loop", !.users = EnabledFrom(1)]]
    /\ UNCHANGED <<sync_logs, daily_metrics, activities, accounts>>
    /\ SyncFrame

\* for user in users: service.sync_user(user)
SyncNextUser(login_ok) ==
    LET call == calls["scheduler"]
    IN /\ call.pc = "loop"
       /\ call.users # <<>>
       /\ BeginSync("scheduler", [call EXCEPT !.users = Tail(@)], Head(call.users),
                    DefaultDaysBack, DefaultOffsetDays, login_ok)
       /\ SyncFrame

\* return results
ReturnResults ==
    /\ calls["scheduler"].pc = "loop"
    /\ calls["scheduler"].users = <<>>
    /\ calls' = [calls EXCEPT !["scheduler"].pc = "returned"]
    /\ UNCHANGED <<sync_logs, daily_metrics, activities, accounts>>
    /\ SyncFrame

\* Whether _sync_daily_metrics raises on the row it has filled: _calculate_scores
\* subtracts the baseline from a resting heart rate that is not a number, or
\* divides by zero.
DayRaises(m) == IsNonNumeric(m.resting_hr) \/ ScoresRaise(m)

\* Mutant of AfterDay: a day that raises is not recorded.
AfterDay_Unrecorded(result, raises, day) ==
    IF raises THEN result ELSE [result EXCEPT !.metrics_synced = @ + 1]

\* The result after _sync_daily_metrics (lines 54-58): the day is counted, or
\* its error recorded.
AfterDay(result, raises, day) ==
    IF raises
    THEN [result EXCEPT !.errors = Append(@, [kind |-> "Metrics", ref |-> day])]
    ELSE [result EXCEPT !.metrics_synced = @ + 1]

\* One turn of `for i in range(days_back)` (lines 51-58): the date, then
\* _sync_daily_metrics under its try, the client answering with resp.
SyncDay(c, resp) ==
    LET call == calls[c]
        day == today - (call.i + call.offset_days)
        rows == SessionMetrics(call.session)
        k == FindDailyMetric(rows, call.user_id, day)
        m0 == IF k # 0 THEN rows[k] ELSE NewDailyMetric(call.user_id, day)
    IN /\ call.pc = "days"
       /\ call.i < call.days_back
       /\ IF ~ValidOrdinal(day)
          THEN Fail(c, call, sync_logs, [kind |-> "date", ref |-> call.i])
          ELSE \E m1 \in {ApplyVo2(ApplySleep(ApplyStats(m0, resp.stats), resp.sleep),
                                   resp.vo2)} :
               \E m2 \in {IF DayRaises(m1) THEN m1
                          ELSE CalculateScores(m1, accounts[call.user_id])} :
                  /\ calls' = [calls EXCEPT ![c] =
                        [call EXCEPT
                           !.i = @ + 1,
                           !.session =
                               IF k # 0 THEN WithChangedRow(@, k, m2)
                               ELSE IF DayRaises(m1) THEN @
                               ELSE [@ EXCEPT !.new_metrics = Append(@, m2)],
                           !.result = AfterDay(@, DayRaises(m1), day)]]
                  /\ UNCHANGED <<sync_logs, daily_metrics, activities, accounts>>
       /\ SyncFrame

\* Whether _sync_activity raises: _calculate_activity_strain adds a training
\* effect that is not a number.
ActivityRaises(a) == IsNonNumeric(a.aerobicTrainingEffect)

\* `for act in activities` (lines 63-69) from the state acc = [added, count,
\* errors]: the rows the session has added, activities_synced and the errors.
RECURSIVE SyncActivityList(_, _, _)
SyncActivityList(acc, uid, list) ==
    IF list = <<>> THEN acc
    ELSE LET a == Head(list)
             after ==
                 IF ~Truthy(a.activityId) THEN acc
                 ELSE IF ActivityExists(activities \o acc.added, a.activityId) THEN acc
                 ELSE IF ActivityRaises(a)
                 THEN [acc EXCEPT !.errors =
                          Append(@, [kind |-> "Activity", ref |-> Val(a.activityId)])]
                 ELSE [acc EXCEPT !.added = Append(@, NewActivity(uid, a)),
                                  !.count = @ + 1]
         IN SyncActivityList(after, uid, Tail(list))

\* The activities block (lines 60-72) once the days are done: fetch.ok is
\* whether client.get_activities(0, 20) returns, fetch.list what it returns.
SyncActivities(c, fetch) ==
    LET call == calls[c]
        acc0 == [added |-> call.session.new_activities,
                 count |-> call.result.activities_synced,
                 errors |-> call.result.errors]
        acc == IF call.offset_days # 0 THEN acc0
               ELSE IF ~fetch.ok
               THEN [acc0 EXCEPT !.errors =
                        Append(@, [kind |-> "Activities fetch", ref |-> 0])]
               ELSE SyncActivityList(acc0, call.user_id, fetch.list)
    IN /\ call.pc = "days"
       /\ call.i >= call.days_back
       /\ calls' = [calls EXCEPT ![c] =
                       [call EXCEPT !.pc = "finish",
                                    !.session.new_activities = acc.added,
                                    !.result.activities_synced = acc.count,
                                    !.result.errors = acc.errors]]
       /\ UNCHANGED <<sync_logs, daily_metrics, activities, accounts>>
       /\ SyncFrame

\* Mutant of FinalStatus: errors do not lower the status.
FinalStatus_Success(errors) == "success"

\* log.status = 'success' if not result['errors'] else 'partial'
FinalStatus(errors) == IF errors = <<>> THEN "success" ELSE "partial"

\* result['errors'][:10]
FirstErrors(errors) == SubSeq(errors, 1, Min(10, Len(errors)))

\* The end of a sync whose login passed (lines 75-84, 91-95).
FinishSync(c) ==
    LET call == calls[c]
    IN /\ call.pc = "finish"
       /\ IF BreaksUnique(call.session) THEN CommitRaises(c, call)
          ELSE /\ accounts' = [accounts EXCEPT ![call.user_id].last_sync = Some(call.log)]
               /\ sync_logs' =
                     [sync_logs EXCEPT
                        ![call.log].status = FinalStatus(call.result.errors),
                        ![call.log].metrics_synced = call.result.metrics_synced,
                        ![call.log].activities_synced = call.result.activities_synced,
                        ![call.log].error_message = FirstErrors(call.result.errors),
                        ![call.log].finished_at = Some(call.log)]
               /\ daily_metrics' = CommittedMetrics(call.session)
               /\ activities' = activities \o call.session.new_activities
               /\ calls' = [calls EXCEPT ![c] =
                               EndCall(c, [call EXCEPT !.result.success = TRUE,
                                                       !.session = NewSession], FALSE)]
       /\ SyncFrame

----------------------------------------------------------------------------
(* SpecSync: manual syncs one after the other.  SpecOverlap: the scheduled *)
(* job and manual syncs, their steps interleaved.                          *)

\* date.today() of the runs.
SyncToday == DateOrdinal(CurrentYear, 11, 6)

\* The users: 1 has credentials; 2 has no stored password and has the sync
\* switched off; 3 has no Garmin e-mail; 4 has credentials.
SyncAccounts ==
    <<Account(Some(1996), TRUE, TRUE, TRUE), Account(None, TRUE, FALSE, FALSE),
      Account(None, FALSE, FALSE, TRUE), Account(None, TRUE, TRUE, TRUE)>>

InitSync ==
    /\ user = [id |-> 1, birth_year |-> None]
    /\ fp = "even"
    /\ daily_metrics = <<>>
    /\ metric = NewDailyMetric(user.id, 1)
    /\ prev = metric
    /\ runs = 0
    /\ raised = FALSE
    /\ activities = <<>>
    /\ today = SyncToday
    /\ response = NoResponse
    /\ accounts = SyncAccounts
    /\ sync_logs = <<>>
    /\ calls = [c \in Callers |-> IdleCall]
    /\ selection = [pc |-> "idle"]

\* The client's answers for one day: a summary, a summary whose resting heart
\* rate is text, and every endpoint failing.
GoodResponse == [stats |-> Some(FullStats), sleep |-> None, vo2 |-> None]

TextResponse ==
    [GoodResponse EXCEPT !.stats = Some([FullStats EXCEPT !.restingHeartRate =
                                                             Some(NonNumeric)])]

EmptyResponse == [stats |-> None, sleep |-> None, vo2 |-> None]

DayResponses == {GoodResponse, TextResponse, EmptyResponse}

\* The JSON body of /api/sync: days_back and offset_days are taken as sent.
DaysBackInputs == {-1, 0, 1, 2}

\* Offsets: none, one day, the offset that reaches date.min, and one beyond it.
OffsetInputs == {0, 1, SyncToday - 1, 800000}

Activity101 ==
    [NoActivityData EXCEPT !.activityId = Some(101), !.aerobicTrainingEffect = Some(30)]

Activity102 ==
    [NoActivityData EXCEPT !.activityId = Some(102), !.duration = Some(3600)]

\* What client.get_activities can answer: a failure, no activity, activity 101,
\* 101 again with another training effect and 102, and 102 with a training
\* effect that is text followed by an activity without id.
ActivityFetches ==
    {[ok |-> FALSE, list |-> <<>>],
     [ok |-> TRUE, list |-> <<>>],
     [ok |-> TRUE, list |-> <<Activity101>>],
     [ok |-> TRUE, list |-> <<[Activity101 EXCEPT !.aerobicTrainingEffect = Some(50)],
                              Activity102>>],
     [ok |-> TRUE, list |-> <<[Activity102 EXCEPT !.aerobicTrainingEffect =
                                                     Some(NonNumeric)],
                              NoActivityData>>]}

NextSync ==
    \/ \E uid \in DOMAIN accounts, days_back \in DaysBackInputs,
          offset_days \in OffsetInputs, login_ok \in BOOLEAN :
          SyncNow(uid, days_back, offset_days, login_ok)
    \/ \E resp \in DayResponses : SyncDay("manual", resp)
    \/ \E fetch \in ActivityFetches : SyncActivities("manual", fetch)
    \/ FinishSync("manual")

SpecSync == InitSync /\ [][NextSync]_vars

\* The overlapping runs: the scheduled job over all users with the defaults,
\* and manual syncs of the last days.
NextOverlap ==
    \/ RunSync
    \/ \E login_ok \in BOOLEAN : SyncNextUser(login_ok)
    \/ ReturnResults
    \/ \E uid \in DOMAIN accounts, days_back \in {1, 2}, offset_days \in {0, 1} :
          SyncNow(uid, days_back, offset_days, TRUE)
    \/ \E c \in Callers : SyncDay(c, GoodResponse)
    \/ \E c \in Callers : SyncActivities(c, [ok |-> TRUE, list |-> <<Activity101>>])
    \/ \E c \in Callers : FinishSync(c)

SpecOverlap == InitSync /\ [][NextOverlap]_vars

----------------------------------------------------------------------------
(* select_exercises_for_day (exercises.py).  The catalogue is cut down to  *)
(* the first-tier entries of two muscles; the function treats every muscle *)
(* and tier alike.                                                         *)

\* EXERCISES: id, equipment and movement of each entry, per muscle.
EXERCISES ==
    [glutes |->
        <<[id |-> "hip_thrust_barbell", equipment |-> {"barbell"},
           movement |-> "hip_dominant"],
          [id |-> "hip_thrust_machine", equipment |-> {"machines"},
           movement |-> "hip_dominant"],
          [id |-> "glute_bridge_barbell", equipment |-> {"barbell"},
           movement |-> "hip_dominant"]>>,
     quads |->
        <<[id |-> "back_squat", equipment |-> {"barbell"}, movement |-> "squat"],
          [id |-> "leg_press", equipment |-> {"machines"}, movement |-> "squat"]>>]

\* get_exercises_for_muscle(muscle, equipment_available)
GetExercisesForMuscle(muscle, equipment_available) ==
    IF muscle \notin DOMAIN EXERCISES THEN <<>>
    ELSE SelectSeq(EXERCISES[muscle],
                   LAMBDA ex : ex.equipment \cap equipment_available # {})

\* [s['id'] for s in selected]
SelectedIds(selected) == {selected[k].id : k \in 1..Len(selected)}

\* tier1: the available exercises whose id is an element of a tier1 list.  The
\* elements of those lists are the exercise dicts, which no id equals.
Tier1Of(available) == SelectSeq(available, LAMBDA ex : FALSE)

\* `for fav in favorites_available` (lines 313-326) from the locals
\* loc = [selected, used_movements].
RECURSIVE AddFavorites(_, _, _)
AddFavorites(loc, favs, num_exercises) ==
    IF favs = <<>> \/ Len(loc.selected) >= num_exercises THEN loc
    ELSE LET fav == Head(favs)
             after ==
                 IF /\ fav.id \notin SelectedIds(loc.selected)
                    /\ (fav.movement \notin loc.used_movements \/ Len(loc.selected) < 2)
                 THEN [selected |-> Append(loc.selected, fav),
                       used_movements |-> loc.used_movements \cup {fav.movement}]
                 ELSE loc
         IN AddFavorites(after, Tail(favs), num_exercises)

\* The first loop over target_muscles (lines 285-326).
RECURSIVE PickPerMuscle(_, _, _)
PickPerMuscle(loc, muscles, args) ==
    IF muscles = <<>> THEN loc
    ELSE LET muscle == Head(muscles)
             available ==
                 SelectSeq(GetExercisesForMuscle(muscle, args.equipment_available),
                           LAMBDA ex : ex.id \notin args.excluded_exercises)
             tier1 == Tier1Of(available)
             favorites_available ==
                 SelectSeq(available, LAMBDA ex : ex.id \in args.favorite_exercises)
             first ==
                 IF tier1 # <<>> /\ muscle \in {"glutes", "quads", "back", "chest"}
                 THEN LET ex == tier1[((args.week_number - 1) % Len(tier1)) + 1]
                      IN IF ex.movement \notin loc.used_movements \/ muscle = "glutes"
                         THEN [selected |-> Append(loc.selected, ex),
                               used_movements |-> loc.used_movements \cup {ex.movement}]
                         ELSE loc
                 ELSE loc
         IN PickPerMuscle(IF available = <<>> THEN loc
                          ELSE AddFavorites(first, favorites_available, args.num_exercises),
                          Tail(muscles), args)

\* One turn of `while len(selected) < num_exercises`: the loop over
\* target_muscles of lines 330-349, from the list selected.
RECURSIVE FillFrom(_, _, _)
FillFrom(selected, muscles, args) ==
    IF muscles = <<>> \/ Len(selected) >= args.num_exercises THEN selected
    ELSE LET available ==
                 SelectSeq(GetExercisesForMuscle(Head(muscles), args.equipment_available),
                           LAMBDA ex : /\ ex.id \notin SelectedIds(selected)
                                       /\ ex.id \notin args.excluded_exercises)
             idx == (args.week_number - 1 + Len(selected)) % Len(available)
         IN FillFrom(IF available # <<>> THEN Append(selected, available[idx + 1])
                     ELSE selected,
                     Tail(muscles), args)

\* The turns of the while loop are counted modulo MaxPasses: the loop has no
\* bound on its turns, the count only tells one turn from the next.
MaxPasses == 6

\* The call: the arguments are bound and the first loop runs.
SelectExercisesForDay(args) ==
    /\ selection.pc = "idle"
    /\ selection' =
          [pc |-> "fill", args |-> args, passes |-> 0, result |-> <<>>,
           selected |-> PickPerMuscle([selected |-> <<>>, used_movements |-> {}],
                                      args.target_muscles, args).selected]

\* One turn of the while loop, `if len(selected) == 0: break` included.
FillPass ==
    /\ selection.pc = "fill"
    /\ Len(selection.selected) < selection.args.num_exercises
    /\ \E after \in {FillFrom(selection.selected, selection.args.target_muscles,
                              selection.args)} :
          selection' =
             IF Len(after) = 0
             THEN [selection EXCEPT !.pc = "returned",
                                    !.passes = (@ + 1) % MaxPasses,
                                    !.result = <<>>]
             ELSE [selection EXCEPT !.selected = after,
                                    !.passes = (@ + 1) % MaxPasses]

\* The loop condition fails: return selected[:num_exercises]
ReturnSelected ==
    /\ selection.pc = "fill"
    /\ Len(selection.selected) >= selection.args.num_exercises
    /\ selection' =
          [selection EXCEPT !.pc = "returned",
                            !.result = SubSeq(selection.selected, 1,
                                              Max(0, selection.args.num_exercises))]

SelectFrame ==
    UNCHANGED <<user, fp, daily_metrics, metric, runs, prev, raised, activities, today,
                response, accounts, sync_logs, calls>>

\* The arguments: up to two target muscles (one unknown to the catalogue), the
\* equipment, one favourite, exclusions, and zero to four exercises asked for.
SelectArgs ==
    [target_muscles : {<<>>, <<"glutes">>, <<"glutes", "quads">>, <<"calves">>},
     equipment_available : {{}, {"barbell"}, {"barbell", "machines"}},
     favorite_exercises : {{}, {"leg_press"}},
     excluded_exercises : {{}, {"hip_thrust_barbell", "glute_bridge_barbell"}},
     num_exercises : 0..4,
     week_number : {1, 2}]

InitSelect ==
    /\ user = [id |-> 1, birth_year |-> None]
    /\ fp = "even"
    /\ daily_metrics = <<>>
    /\ metric = NewDailyMetric(user.id, 1)
    /\ prev = metric
    /\ runs = 0
    /\ raised = FALSE
    /\ activities = <<>>
    /\ today = 1
    /\ response = NoResponse
    /\ NoSync

NextSelect ==
    \/ \E args \in SelectArgs : SelectExercisesForDay(args) /\ SelectFrame
    \/ FillPass /\ SelectFrame
    \/ ReturnSelected /\ SelectFrame

SpecSelect == InitSelect /\ [][NextSelect]_vars

\* The function runs on: a step that can be taken is taken.
SpecSelectFair == SpecSelect /\ WF_vars(NextSelect)

----------------------------------------------------------------------------
(* Properties of the scores, checked under SpecScores.                     *)

\* _calculate_scores has run on the object and returned.
Scored == runs >= 1 /\ ~raised

\* The chronological age, in tenths of a year.
ChronoAge10 == 10 * GetRealAge(user)

\* The per-factor year-impact columns and the factor each belongs to.
ImpactColumn(f) ==
    CASE f = "rhr" -> "bio_age_rhr_impact"
      [] f = "vo2" -> "bio_age_vo2_impact"
      [] f = "sleep" -> "bio_age_sleep_impact"
      [] f = "steps" -> "bio_age_steps_impact"
      [] f = "hrz" -> "bio_age_hrz_impact"

\* The factors whose year-impact column is not null.
NonNullImpacts(m) == {f \in FactorNames : m[ImpactColumn(f)] # None}

\* The sum of the non-null year-impact columns, in tenths.
RECURSIVE SumColumns(_, _)
SumColumns(m, fs) ==
    IF fs = {} THEN 0
    ELSE LET f == CHOOSE x \in fs : TRUE
         IN Val(m[ImpactColumn(f)]) + SumColumns(m, fs \ {f})

\* The factors the estimator can compute from the raw columns of m.
ComputableFactors(m) == ImpactKeys(Impacts(m))

\* C1: after the estimator runs, biological_age is present iff at least 2 of the
\* 5 impact factors were computable; with fewer than 2, biological_age and every
\* per-factor year-impact column are null, whatever the row held before.
C1_BioAgeIffTwoFactors ==
    Scored =>
        LET n == Cardinality(ComputableFactors(metric))
        IN /\ (metric.biological_age # None) <=> (n >= 2)
           /\ n < 2 => /\ NonNullImpacts(metric) = {}
                       /\ metric.bio_age_stress_impact = None

\* C1 witness: a row that carried a biological age is re-scored on telemetry
\* with fewer than 2 computable factors, and the age is cleared.
C1_Witness ==
    /\ Scored
    /\ Cardinality(ComputableFactors(metric)) = 1
    /\ prev.biological_age # None
    /\ metric.biological_age = None

\* C2: with n >= 2 computable factors the non-null year impacts sum to
\* biological_age - chronological age within 0.1 * n (all in tenths: within n).
C2_ImpactsSumToDelta ==
    (Scored /\ metric.biological_age # None) =>
        LET fs == NonNullImpacts(metric)
            n == Cardinality(fs)
            delta == Val(metric.biological_age) - ChronoAge10
        IN /\ n >= 2
           /\ fs = ComputableFactors(metric)
           /\ Abs(SumColumns(metric, fs) - delta) <= n

\* C2 witness: a scored row on which rounding makes the sum differ from the delta.
C2_Witness ==
    /\ Scored
    /\ metric.biological_age # None
    /\ Cardinality(NonNullImpacts(metric)) >= 3
    /\ SumColumns(metric, NonNullImpacts(metric))
          # Val(metric.biological_age) - ChronoAge10

\* Every raw column is absent or a non-negative number.
RawNonNegative(m) == \A f \in RawFields : m[f] = None \/ Val(m[f]) >= 0

\* C4: on telemetry that is absent or non-negative, recovery_score is absent or
\* in 0..100, strain_score is in 0.0..21.0 and sleep_performance is absent or in
\* 0..100.
C4_ScoresInRange ==
    (Scored /\ RawNonNegative(metric)) =>
        /\ metric.recovery_score = None \/ Val(metric.recovery_score) \in 0..100
        /\ metric.strain_score # None /\ Val(metric.strain_score) \in 0..210
        /\ metric.sleep_performance = None \/ Val(metric.sleep_performance) \in 0..100

\* C4 witness: a day whose uncapped strain exceeds 21 is scored at the cap.
C4_Witness ==
    /\ Scored
    /\ RawNonNegative(metric)
    /\ RLt(RInt(21), StrainRaw(metric))
    /\ metric.strain_score = Some(210)

\* The raw columns other than resting_hr and steps are null, those two are known.
OnlyRhrAndSteps(m) ==
    /\ \A f \in RawFields \ {"resting_hr", "steps"} : m[f] = None
    /\ m.resting_hr # None
    /\ m.steps # None

\* C5 as stated: with only resting_hr = 80 and steps = 1500 known, exactly 2
\* factors (rhr, steps) are computable, biological_age is present and above the
\* chronological age, and the 2 non-null year impacts sum to the delta.
C5_Original ==
    (Scored /\ OnlyRhrAndSteps(metric)
            /\ metric.resting_hr = Some(80) /\ metric.steps = Some(1500)) =>
        /\ ComputableFactors(metric) = {"rhr", "steps"}
        /\ NonNullImpacts(metric) = {"rhr", "steps"}
        /\ metric.biological_age # None
        /\ Val(metric.biological_age) > ChronoAge10
        /\ SumColumns(metric, NonNullImpacts(metric))
              = Val(metric.biological_age) - ChronoAge10

\* C5 amended: with only resting_hr and steps known (both positive), 3 factors are
\* computable: rhr, steps and intensity, whose missing minutes count as a score of
\* 0 (impact +0.5) because steps are known.  biological_age is present and the 3
\* non-null year impacts sum to the delta within 0.1 * 3.  For resting_hr = 80 and
\* steps = 1500 the impacts are 2.7, 2.7 and 1.3 years and sum to exactly
\* biological_age - chronological age = 6.7 > 0.
C5_RhrAndStepsGiveThreeFactors ==
    (Scored /\ OnlyRhrAndSteps(metric)
            /\ Val(metric.resting_hr) > 0 /\ Val(metric.steps) > 0) =>
        /\ ComputableFactors(metric) = {"rhr", "steps", "hrz"}
        /\ NonNullImpacts(metric) = {"rhr", "steps", "hrz"}
        /\ metric.biological_age # None
        /\ Abs(SumColumns(metric, NonNullImpacts(metric))
                  - (Val(metric.biological_age) - ChronoAge10)) <= 3
        /\ (metric.resting_hr = Some(80) /\ metric.steps = Some(1500)) =>
              /\ metric.bio_age_rhr_impact = Some(27)
              /\ metric.bio_age_steps_impact = Some(27)
              /\ metric.bio_age_hrz_impact = Some(13)
              /\ metric.biological_age = Some(ChronoAge10 + 67)

\* C5 witness: the scenario's row, scored at chronological age 30.
C5_Witness ==
    /\ Scored
    /\ OnlyRhrAndSteps(metric)
    /\ metric.resting_hr = Some(80)
    /\ metric.steps = Some(1500)
    /\ GetRealAge(user) = 30
    /\ metric.biological_age = Some(367)

\* The row held no derived column before the run.
FreshBefore == \A f \in DerivedFields : prev[f] = None

\* C6: for every combination of present and absent raw columns, zeros included,
\* _calculate_scores returns without raising; insufficient data shows as an absent
\* biological_age and, on a row that held no derived column, as an absent
\* recovery_score and sleep_performance.
C6_NeverRaises ==
    runs >= 1 =>
        /\ ~raised
        /\ Cardinality(ComputableFactors(metric)) < 2 => metric.biological_age = None
        /\ FreshBefore =>
              /\ RecoveryComponents(metric) = <<>> => metric.recovery_score = None
              /\ ~Truthy(metric.sleep_seconds) => metric.sleep_performance = None

\* C6 witness: a row with sleep_seconds = 0 and deep and REM durations present
\* has been scored without an error.
C6_Witness ==
    /\ runs >= 1
    /\ ~raised
    /\ metric.sleep_seconds = Some(0)
    /\ Truthy(metric.deep_sleep_seconds)
    /\ Truthy(metric.rem_sleep_seconds)
    /\ metric.sleep_performance = None

\* C7: a second run of _calculate_scores on the unchanged row yields the derived
\* columns of the first run.
C7_Idempotent ==
    runs >= 2 =>
        /\ \A f \in DerivedFields : metric[f] = prev[f]
        /\ \A f \in RawFields : metric[f] = prev[f]

\* C7 witness: a row with all four scores present has been scored twice.
C7_Witness ==
    /\ runs = 2
    /\ ~raised
    /\ metric.recovery_score # None
    /\ metric.sleep_performance # None
    /\ metric.biological_age # None
    /\ Val(metric.strain_score) > 0

\* The biological age the estimator gives the row m2.
AltBio(m2) == CalculateBiologicalAge(m2, user).biological_age

RhrProbe == {35, 40, 50, 59, 60, 61, 70, 80, 95}

StepsProbe == {1, 1999, 2000, 3999, 4000, 5999, 6000, 7999, 8000, 9999, 10000,
               11999, 12000, 20000}

\* C8: holding the other raw columns and the age fixed, the biological age does
\* not decrease when a positive resting_hr increases and does not increase when
\* a positive steps count increases.
C8_Monotone ==
    (Scored /\ metric.biological_age # None) =>
        LET bio == Val(metric.biological_age)
        IN /\ (metric.resting_hr # None /\ Val(metric.resting_hr) > 0) =>
                \A r \in RhrProbe :
                    LET alt == AltBio([metric EXCEPT !.resting_hr = Some(r)])
                    IN /\ alt # None
                       /\ r >= Val(metric.resting_hr) => Val(alt) >= bio
                       /\ r <= Val(metric.resting_hr) => Val(alt) <= bio
           /\ (metric.steps # None /\ Val(metric.steps) > 0) =>
                \A t \in StepsProbe :
                    LET alt == AltBio([metric EXCEPT !.steps = Some(t)])
                    IN /\ alt # None
                       /\ t >= Val(metric.steps) => Val(alt) <= bio
                       /\ t <= Val(metric.steps) => Val(alt) >= bio

\* C8 witness: a scored row with resting_hr 50 and steps 1500 whose biological age
\* is strictly lower than at resting_hr 70 and strictly higher than at 12000 steps.
C8_Witness ==
    /\ Scored
    /\ metric.biological_age # None
    /\ metric.resting_hr = Some(50)
    /\ metric.steps = Some(1500)
    /\ Val(AltBio([metric EXCEPT !.resting_hr = Some(70)])) > Val(metric.biological_age)
    /\ Val(AltBio([metric EXCEPT !.steps = Some(12000)])) < Val(metric.biological_age)

\* An impact is absent or lies in [-1, 1].
InUnit(x) == x = None \/ (RLe(RInt(-1), Val(x)) /\ RLe(Val(x), RInt(1)))

Vo2Probe == {-10, 0, 1, 299, 300, 420, 550, 551, 900}

SleepProbe == {-3600, 0, 1, 3600, 14399, 14400, 25199, 25200, 30600, 30601,
               36000, 36001, 86400}

MinutesProbe == {-30, 0, 1, 4, 5, 15, 30, 45, 60, 600}

\* C9: every computed impact lies in [-1, 1], for the row's telemetry and for
\* every probed value of each factor's input, so a present biological_age
\* differs from the chronological age by at most MAX_YEARS years.
C9_ImpactsBounded ==
    Scored =>
        /\ \A f \in FactorNames : InUnit(Impacts(metric)[f])
        /\ \A r \in RhrProbe \cup {-10, 0, 1, 250} :
              InUnit(RhrImpact([metric EXCEPT !.resting_hr = Some(r)]))
        /\ \A v \in Vo2Probe : InUnit(Vo2Impact([metric EXCEPT !.vo2_max = Some(v)]))
        /\ \A z \in SleepProbe :
              InUnit(SleepImpact([metric EXCEPT !.sleep_seconds = Some(z)]))
        /\ \A t \in StepsProbe \cup {-5, 0} :
              InUnit(StepsImpact([metric EXCEPT !.steps = Some(t)]))
        /\ \A a \in MinutesProbe :
              InUnit(HrzImpact([metric EXCEPT !.moderate_intensity_minutes = Some(a)]))
        /\ metric.biological_age # None =>
              Abs(Val(metric.biological_age) - ChronoAge10) <= 10 * MAX_YEARS

\* C9 witness: a row whose biological age is the full MAX_YEARS above the age.
C9_Witness ==
    /\ Scored
    /\ metric.biological_age = Some(ChronoAge10 + 10 * MAX_YEARS)

\* What int(x) can return for a float x whose exact value is q: the truncation
\* of q, or, when q is a non-zero integer, also the integer next to it toward 0.
IsIntOf(v, q) ==
    LET n == q[1]
        d == q[2]
        t == IF n >= 0 THEN n \div d ELSE -((-n) \div d)
    IN \/ v = t
       \/ n % d = 0 /\ n > 0 /\ v = t - 1
       \/ n % d = 0 /\ n < 0 /\ v = t + 1

\* A component of the recovery score has data.
HasRecoveryData(m) ==
    Truthy(m.body_battery_high) \/ Truthy(m.resting_hr) \/ Truthy(m.sleep_seconds)

\* The weight-renormalized mean of the available components among the three
\* scores bb (weight 0.4), rhr (weight 0.3) and sl (weight 0.3).
RenormalizedMean(m, bb, rhr, sl) ==
    LET wb == IF Truthy(m.body_battery_high) THEN 4 ELSE 0
        wr == IF Truthy(m.resting_hr) THEN 3 ELSE 0
        ws == IF Truthy(m.sleep_seconds) THEN 3 ELSE 0
    IN RDiv(RAdd(RMul(bb, RInt(wb)), RAdd(RMul(rhr, RInt(wr)), RMul(sl, RInt(ws)))),
            RInt(wb + wr + ws))

\* clamp(x, 0, 100)
Clamp100(x) == Max(0, Min(100, x))

\* The recovery mean with the components as C10 states them.
C10_StatedMean(m) ==
    RenormalizedMean(m,
        RInt(Min(100, OrZero(m.body_battery_high))),
        RInt(Clamp100(100 - (OrZero(m.resting_hr) - 55) * 3)),
        RMin(RInt(100), Rat(OrZero(m.sleep_seconds) * 100, 8 * 3600)))

\* C10 as stated: recovery_score is the integer truncation of the renormalized
\* mean of min(100, body battery), clamp(100 - (rhr - 55) * 3, 0, 100) and
\* min(100, hours / 8 * 100).
C10_Original ==
    (Scored /\ HasRecoveryData(metric)) =>
        /\ metric.recovery_score # None
        /\ IsIntOf(Val(metric.recovery_score), C10_StatedMean(metric))

\* The sleep component the code computes: the duration score in steps (100 from
\* 7 h, 80 from 6 h, 60 from 5 h, hours / 5 * 60 below, not under 0), averaged with
\* min(100, (deep + REM) / sleep / 0.4 * 100) when deep and REM are both non-zero.
C10_SleepScore(m) ==
    LET s == OrZero(m.sleep_seconds)
        dur == IF s >= 25200 THEN RInt(100)
               ELSE IF s >= 21600 THEN RInt(80)
               ELSE IF s >= 18000 THEN RInt(60)
               ELSE IF s <= 0 THEN RInt(0) ELSE Rat(s, 300)
    IN IF s # 0 /\ Truthy(m.deep_sleep_seconds) /\ Truthy(m.rem_sleep_seconds)
       THEN LET q == RMin(RInt(100),
                          Rat(250 * (Val(m.deep_sleep_seconds) + Val(m.rem_sleep_seconds)), s))
            IN RDiv(RAdd(dur, q), RInt(2))
       ELSE dur

\* The recovery mean with the components the code computes.
C10_CodeMean(m) ==
    RenormalizedMean(m,
        RInt(Min(100, OrZero(m.body_battery_high))),
        RInt(Clamp100(100 - (OrZero(m.resting_hr) - 60) * 3)),
        C10_SleepScore(m))

\* C10 amended: recovery_score is int() of the weight-renormalized mean of the
\* components that have non-zero data: min(100, body battery) (weight 0.4),
\* clamp(100 - (rhr - 60) * 3, 0, 100) (weight 0.3), and the sleep score (weight
\* 0.3) of C10_SleepScore.  int() truncates; when the mean is an exact non-zero
\* integer k the float quotient may lie just below it and give k - 1.
C10_RecoveryIsTruncatedMean ==
    (Scored /\ HasRecoveryData(metric)) =>
        /\ metric.recovery_score # None
        /\ IsIntOf(Val(metric.recovery_score), C10_CodeMean(metric))

\* C10 witness: a scored row with all three components, the RHR above the
\* baseline and deep and REM sleep known.
C10_Witness ==
    /\ Scored
    /\ Truthy(metric.body_battery_high)
    /\ metric.resting_hr = Some(76)
    /\ Truthy(metric.sleep_seconds)
    /\ Truthy(metric.deep_sleep_seconds)
    /\ Truthy(metric.rem_sleep_seconds)
    /\ metric.recovery_score # None
    /\ IsIntOf(Val(metric.recovery_score), C10_CodeMean(metric))
    /\ ~IsIntOf(Val(metric.recovery_score), C10_StatedMean(metric))

\* The recovery components that have data, by name.
AvailableComponents(m) ==
    {c \in {"body_battery", "rhr", "sleep"} :
        CASE c = "body_battery" -> Truthy(m.body_battery_high)
          [] c = "rhr" -> Truthy(m.resting_hr)
          [] c = "sleep" -> Truthy(m.sleep_seconds)}

\* The value of a recovery component that has data.
ComponentValue(m, c) ==
    CASE c = "body_battery" -> BodyBatteryComponent(m)[1][1]
      [] c = "rhr" -> RhrComponent(m)[1][1]
      [] c = "sleep" -> SleepComponent(m)[1][1]

\* The nominal weight of a recovery component, in tenths.
ComponentWeight(c) == CASE c = "body_battery" -> 4 [] c = "rhr" -> 3 [] c = "sleep" -> 3

\* sum(value * weight) over the components cs.
RECURSIVE SumValueWeight(_, _)
SumValueWeight(m, cs) ==
    IF cs = {} THEN RInt(0)
    ELSE LET c == CHOOSE x \in cs : TRUE
         IN RAdd(RMul(ComponentValue(m, c), RInt(ComponentWeight(c))),
                 SumValueWeight(m, cs \ {c}))

\* sum(weight) over the components cs, in tenths.
RECURSIVE SumWeight(_)
SumWeight(cs) ==
    IF cs = {} THEN 0
    ELSE LET c == CHOOSE x \in cs : TRUE IN ComponentWeight(c) + SumWeight(cs \ {c})

\* C11: for every subset of available components recovery_score is (the int() of)
\* sum(value * weight) / sum(weight) over the available components only; without
\* sleep data the score comes from body battery and RHR with weights 4/7 and 3/7;
\* a scored row has no recovery_score only when no component is available, and a
\* new row with no component gets none.
C11_RenormalizedOverAvailable ==
    Scored =>
        LET cs == AvailableComponents(metric)
        IN /\ cs # {} =>
                /\ metric.recovery_score # None
                /\ IsIntOf(Val(metric.recovery_score),
                           RDiv(SumValueWeight(metric, cs), RInt(SumWeight(cs))))
           /\ cs = {"body_battery", "rhr"} =>
                IsIntOf(Val(metric.recovery_score),
                        RAdd(RMul(Rat(4, 7), ComponentValue(metric, "body_battery")),
                             RMul(Rat(3, 7), ComponentValue(metric, "rhr"))))
           /\ metric.recovery_score = None => cs = {}
           /\ (cs = {} /\ FreshBefore) => metric.recovery_score = None

\* C11 witness: a day without sleep data scored from body battery 57 and RHR 76
\* only: (0.4 * 57 + 0.3 * 52) / 0.7 = 54.86, recovery_score 54.
C11_Witness ==
    /\ Scored
    /\ metric.body_battery_high = Some(57)
    /\ metric.resting_hr = Some(76)
    /\ metric.sleep_seconds = None
    /\ metric.recovery_score = Some(54)

\* The phase quality as C12 states it: the average of the deep and REM scores
\* whenever both durations are non-null, 50 otherwise.
C12_StatedPhaseQuality(m) ==
    IF m.deep_sleep_seconds # None /\ m.rem_sleep_seconds # None
    THEN LET s == Val(m.sleep_seconds)
             deep_score == RMin(RInt(100), Rat(Val(m.deep_sleep_seconds) * 1000 * 100, s * 175))
             rem_score == RMin(RInt(100), Rat(Val(m.rem_sleep_seconds) * 1000 * 100, s * 225))
         IN RDiv(RAdd(deep_score, rem_score), RInt(2))
    ELSE RInt(50)

\* C12: with a sleep duration present, sleep_performance is the integer of
\* 0.6 * min(100, hours / 8 * 100) + 0.4 * phaseQuality, phaseQuality being the
\* average of the deep and REM scores whenever both durations are non-null and 50
\* only when one of them is null.
C12_SleepPerformanceAsStated ==
    (Scored /\ metric.sleep_seconds # None /\ Val(metric.sleep_seconds) > 0) =>
        /\ metric.sleep_performance # None
        /\ IsIntOf(Val(metric.sleep_performance),
                   RAdd(RMul(Rat(6, 10),
                             RMin(RInt(100), Rat(Val(metric.sleep_seconds) * 100, 8 * 3600))),
                        RMul(Rat(4, 10), C12_StatedPhaseQuality(metric))))

----------------------------------------------------------------------------
(* Properties of the daily sync, checked under Spec.                       *)

\* The derived columns _calculate_scores gives a new row with the raw columns of m.
DerivedFromRaw(m) ==
    CalculateScores(WithRaw(NewDailyMetric(Val(m.user_id), Val(m.date)),
                            [f \in RawFields |-> m[f]]), user)

\* C3: after any sequence of syncs every derived column of every row is a
\* function of the row's current raw columns: recovery_score is absent when no
\* recovery component is available, sleep_performance is absent when there is no
\* sleep data, and no column keeps the value an earlier run wrote.
C3_DerivedFromCurrentRaw ==
    \A i \in 1..Len(daily_metrics) :
        LET m == daily_metrics[i]
        IN /\ RecoveryComponents(m) = <<>> => m.recovery_score = None
           /\ ~Truthy(m.sleep_seconds) => m.sleep_performance = None
           /\ \A f \in DerivedFields : m[f] = DerivedFromRaw(m)[f]

----------------------------------------------------------------------------
(* Properties of the activity sync, checked under SpecActivity and Spec.   *)

\* v (in tenths) is a rounding of q to one decimal: |10 q - v| <= 1/2.
IsRound1Of(v, q) == 2 * Abs(10 * q[1] - v * q[2]) <= q[2]

\* The strain of an Activity row as C13 states it.
C13_StatedStrain(row) ==
    RAdd(RAdd(Rat(2 * OrZero(row.aerobic_effect), 10),
              Rat(15 * OrZero(row.anaerobic_effect), 100)),
         RAdd(Rat(5 * OrZero(row.duration_seconds), 36000),
              RAdd(Rat(3 * OrZero(row.hr_zone_4), 600),
                   Rat(5 * OrZero(row.hr_zone_5), 600))))

\* C13: the strain of every synced activity is 2 * aerobic + 1.5 * anaerobic +
\* 0.5 * hours + 0.3 * zone-4 minutes + 0.5 * zone-5 minutes, a missing input
\* counting 0, capped at 21 and rounded to one decimal; aerobic 3.0, anaerobic
\* 1.0 and 3600 s without zone data give exactly 8.0.
C13_ActivityStrainFormula ==
    \A i \in 1..Len(activities) :
        LET row == activities[i]
            v == Val(row.strain_score)
            q == C13_StatedStrain(row)
        IN /\ row.strain_score # None
           /\ v <= 210
           /\ IsRound1Of(v, q) \/ (v = 210 /\ RLt(RInt(21), q))
           /\ (/\ row.aerobic_effect = Some(30) /\ row.anaerobic_effect = Some(10)
               /\ row.duration_seconds = Some(3600)
               /\ row.hr_zone_4 = None /\ row.hr_zone_5 = None) => v = 80

\* C13 witness: the scenario's activity has been synced with strain 8.0.
C13_Witness ==
    \E i \in 1..Len(activities) :
        /\ activities[i].aerobic_effect = Some(30)
        /\ activities[i].anaerobic_effect = Some(10)
        /\ activities[i].duration_seconds = Some(3600)
        /\ activities[i].hr_zone_4 = None
        /\ activities[i].hr_zone_5 = None
        /\ activities[i].strain_score = Some(80)

\* C14: for every input, negative values included, the daily strain_score and the
\* per-activity strain both lie in [0, 21].
C14_StrainClamped ==
    /\ \A i \in 1..Len(daily_metrics) :
          daily_metrics[i].strain_score # None =>
              Val(daily_metrics[i].strain_score) \in 0..210
    /\ \A i \in 1..Len(activities) :
          activities[i].strain_score # None =>
              Val(activities[i].strain_score) \in 0..210

----------------------------------------------------------------------------
(* Properties of the API, checked under SpecApi.                           *)

\* The sleep hours of the records whose sleep duration is not null.
C15_SleepHoursPresent(recs) ==
    [i \in 1..Len(recs) |->
        IF recs[i].sleep_seconds = None THEN None
        ELSE Some(Rat(Val(recs[i].sleep_seconds), 3600))]

\* C15: the period aggregate's days_with_data is the number of the user's
\* records dated in the range, and the mean of each metric is the mean of its
\* non-null values alone, absent when there is none.
C15_MeansOverPresentValues ==
    (response.op = "period" /\ response.status = 200) =>
        LET recs == MetricsBetween(response.start, response.end)
            m == response.metrics
        IN /\ response.days_with_data = Len(recs)
           /\ m.steps_avg = Avg1(Column(recs, "steps"))
           /\ m.rhr = Avg1(Column(recs, "resting_hr"))
           /\ m.stress_avg = Avg1(Column(recs, "stress_avg"))
           /\ m.body_battery_high = Avg1(Column(recs, "body_battery_high"))
           /\ m.recovery = Avg1(Column(recs, "recovery_score"))
           /\ m.strain = Avg1(ColumnTenths(recs, "strain_score"))
           /\ m.sleep_hours = Avg1(C15_SleepHoursPresent(recs))

\* The year and the month that lie off months from the current month.
TargetYear(off) == (YearOf(today) * 12 + MonthOf(today) - 1 + off) \div 12

TargetMonth(off) == ((YearOf(today) * 12 + MonthOf(today) - 1 + off) % 12) + 1

\* The number of days of month m of year y, by the calendar's rules.
CalendarDays(y, m) ==
    IF m \in {4, 6, 9, 11} THEN 30
    ELSE IF m # 2 THEN 31
    ELSE IF y % 4 = 0 /\ (y % 100 # 0 \/ y % 400 = 0) THEN 29 ELSE 28

\* Whether the range function can compute the month: its year is one a date can
\* hold, and it is not the last December, whose end is computed from the first
\* day of the year after.
MonthComputable(off) ==
    /\ TargetYear(off) >= MinYear
    /\ TargetYear(off) <= MaxYear
    /\ ~(TargetYear(off) = MaxYear /\ TargetMonth(off) = 12)

\* The offsets the range function is called with in a request for `offset`.
RangeCalls(offset) == {offset, offset - 1, offset - 2, offset - 3}

\* C16 as stated: for every date and every offset of any magnitude the month
\* request answers with the first and the last day of the month that lies
\* offset months from the current one.
C16_MonthRangeAnyOffset ==
    (response.op = "period" /\ response.type = "month") =>
        /\ response.status = 200
        /\ YearOf(response.start) = TargetYear(response.offset)
        /\ MonthOf(response.start) = TargetMonth(response.offset)
        /\ DayOf(response.start) = 1
        /\ response.end = response.start
               + CalendarDays(TargetYear(response.offset), TargetMonth(response.offset)) - 1

\* C16, amended: for every date and every offset whose month the range function
\* can compute, the range is the first and the last day of the month that lies
\* offset months from the current one, across year ends and with 28 or 29 days
\* of February by the leap-year rule; for every other offset the range function
\* raises and the request fails.
C16_MonthRange ==
    (response.op = "period" /\ response.type = "month") =>
        /\ \A off \in RangeCalls(response.offset) :
              LET r == GetPeriodRange("month", off)
              IN IF MonthComputable(off)
                 THEN /\ r.ok
                      /\ YearOf(r.start) = TargetYear(off)
                      /\ MonthOf(r.start) = TargetMonth(off)
                      /\ DayOf(r.start) = 1
                      /\ r.end = r.start + CalendarDays(TargetYear(off), TargetMonth(off)) - 1
                      /\ YearOf(r.end) = TargetYear(off)
                      /\ MonthOf(r.end) = TargetMonth(off)
                 ELSE ~r.ok
        /\ response.status = 200 <=> \A off \in RangeCalls(response.offset) : MonthComputable(off)
        /\ response.status = 200 =>
              /\ response.start = GetPeriodRange("month", response.offset).start
              /\ response.end = GetPeriodRange("month", response.offset).end

\* C16 witness: a month request answered with the 29 days of a February of
\* another year than the current one.
C16_Witness ==
    /\ response.op = "period"
    /\ response.type = "month"
    /\ response.status = 200
    /\ MonthOf(response.start) = 2
    /\ response.end - response.start = 28
    /\ YearOf(response.start) # YearOf(today)

\* Whether a range is a Monday and the Sunday six days later.
IsMondayToSunday(start_date, end_date) ==
    /\ Weekday(start_date) = 0
    /\ end_date = start_date + 6
    /\ Weekday(end_date) = 6

\* C17: every range a week request returns, the requested one and the
\* comparison ones, starts on a Monday and ends on the Sunday six days later,
\* and the range of offset 0 contains the current date.
C17_WeekMondayToSunday ==
    (response.op = "period" /\ response.type = "week" /\ response.status = 200) =>
        /\ IsMondayToSunday(response.start, response.end)
        /\ \A i \in 1..Len(response.previous) :
              IsMondayToSunday(response.previous[i].start, response.previous[i].end)
        /\ response.offset = 0 => (response.start <= today /\ today <= response.end)

\* C17 witness: the current week requested on a Sunday, which is its last day.
C17_Witness ==
    /\ response.op = "period"
    /\ response.type = "week"
    /\ response.status = 200
    /\ response.offset = 0
    /\ Weekday(today) = 6
    /\ response.end = today

\* C18: a period request that is answered returns exactly three comparison
\* periods, those of the offsets k-1, k-2 and k-3 in that order, and each ends
\* on the day before the period one offset later starts.
C18_ThreePrecedingPeriods ==
    (response.op = "period" /\ response.status = 200) =>
        LET k == response.offset
            p == response.previous
        IN /\ Len(p) = 3
           /\ \A i \in 1..3 :
                 /\ p[i].start = GetPeriodRange(response.type, k - i).start
                 /\ p[i].end = GetPeriodRange(response.type, k - i).end
                 /\ p[i].start <= p[i].end
           /\ p[1].end + 1 = response.start
           /\ p[2].end + 1 = p[1].start
           /\ p[3].end + 1 = p[2].start

\* C18 witness: a month request whose comparison periods reach into the year
\* before the requested month.
C18_Witness ==
    /\ response.op = "period"
    /\ response.type = "month"
    /\ response.status = 200
    /\ Len(response.previous) = 3
    /\ YearOf(response.previous[3].start) < YearOf(response.start)
    /\ YearOf(response.previous[1].start) = YearOf(response.start)

\* The sum, in tenths of a year, of the biological ages of the entries idxs of
\* a series.
RECURSIVE SumBioAges(_, _)
SumBioAges(data, idxs) ==
    IF idxs = {} THEN 0
    ELSE LET i == CHOOSE k \in idxs : TRUE
         IN Val(data[i].biological_age) + SumBioAges(data, idxs \ {i})

\* The entries among idxs that have a biological age.
WithBioAge(data, idxs) == {i \in idxs : Truthy(data[i].biological_age)}

\* The mean biological age, in years, of the entries idxs that have one.
MeanBioAge(data, idxs) ==
    Rat(SumBioAges(data, WithBioAge(data, idxs)), 10 * Cardinality(WithBioAge(data, idxs)))

\* C19: the series of the trend is the user's records of the window, oldest
\* first; its pace of aging is absent when the series holds fewer than 30
\* records or when the most recent 15 or the earliest 15 records hold no
\* biological age, and otherwise it is the mean biological age of the most
\* recent 15 minus that of the earliest 15, times 12, to one decimal.
C19_TrendPace ==
    response.op = "trend" =>
        LET data == response.data
            n == Len(data)
            recent == (n - 14)..n
            older == 1..15
            pace == response.pace_of_aging
        IN /\ n = Cardinality({i \in 1..Len(daily_metrics) :
                                  /\ daily_metrics[i].user_id = Some(user.id)
                                  /\ Val(daily_metrics[i].date) >= today - response.days})
           /\ \A i \in 1..(n - 1) : data[i].date < data[i + 1].date
           /\ n < 30 => pace = None
           /\ n >= 30 =>
                 IF WithBioAge(data, recent) = {} \/ WithBioAge(data, older) = {}
                 THEN pace = None
                 ELSE /\ pace # None
                      /\ IsRound1Of(Val(pace),
                                    RMul(RAdd(MeanBioAge(data, recent),
                                              RMul(RInt(-1), MeanBioAge(data, older))),
                                         RInt(12)))

\* C19 witness: a trend over a series of exactly 30 records whose recent half is
\* older in biological age than its earliest half.
C19_Witness ==
    /\ response.op = "trend"
    /\ Len(response.data) = 30
    /\ response.pace_of_aging # None
    /\ Val(response.pace_of_aging) > 0

\* The recent-versus-older difference, in years, that the healthspan scales.
HealthspanDiffNow ==
    LET metrics == MetricsSince(today - 180)
    IN HealthspanAgeDiff(metrics, ActivitiesSince(today - 180),
                         SelectSeq(metrics, LAMBDA m : Val(m.date) >= today - 30))

\* A pace p, in hundredths, is the difference diff extrapolated from a month to
\* a year: round(diff * 12, 1).
IsMonthlyExtrapolation(p, diff) == p = 10 * Round1(RMul(diff, RInt(12)))

\* A pace p, in hundredths, is the difference diff as a figure bounded to
\* [-1.0, 1.0]: round(diff * 0.8, 2) cut to the bounds.
IsBoundedFigure(p, diff) == p = Max(-100, Min(100, Round2(RMul(diff, Rat(8, 10)))))

\* C20: when the healthspan and the trend both report a pace of aging from the
\* same tables, both scale their recent-versus-older difference by one
\* convention: both are the x12 extrapolation or both are the bounded figure.
C20_OnePaceConvention ==
    (response.op = "healthspan" /\ response.status = 200 /\ response.pace_of_aging # None) =>
        \A days \in TrendDays :
            LET trend == TrendPace(TrendMetrics(days))
                tdiff == TrendDiff(TrendMetrics(days))
                hpace == Val(response.pace_of_aging)
            IN trend # None =>
                  \/ /\ IsMonthlyExtrapolation(10 * Val(trend), tdiff)
                     /\ IsMonthlyExtrapolation(hpace, HealthspanDiffNow)
                  \/ /\ IsBoundedFigure(10 * Val(trend), tdiff)
                     /\ IsBoundedFigure(hpace, HealthspanDiffNow)

----------------------------------------------------------------------------
(* Properties of sync_user, checked under SpecSync (one manual sync at a   *)
(* time) and SpecOverlap (the scheduled job and manual syncs interleaved). *)

\* The rows of the table `rows` for user uid and date day.
RowsOf(rows, uid, day) ==
    {k \in 1..Len(rows) : rows[k].user_id = Some(uid) /\ rows[k].date = Some(day)}

\* No two DailyMetric rows share (user_id, date).
OneRowPerUserDate ==
    \A k, l \in 1..Len(daily_metrics) :
        (/\ daily_metrics[k].user_id = daily_metrics[l].user_id
         /\ daily_metrics[k].date = daily_metrics[l].date) => k = l

\* A step keeps every row in place, with its user and date.
RowsStay ==
    /\ Len(daily_metrics') >= Len(daily_metrics)
    /\ \A k \in 1..Len(daily_metrics) :
          /\ daily_metrics'[k].user_id = daily_metrics[k].user_id
          /\ daily_metrics'[k].date = daily_metrics[k].date

\* A sync that wrote the day of an existing row commits, and the row then holds
\* the values the sync gave it.
ExistingRowUpdated ==
    \A k \in 1..Len(daily_metrics) :
        \A j \in 1..Len(calls["manual"].session.dirty_metrics) :
            (calls["manual"].session.dirty_metrics[j].at = k /\ calls["manual"].pc = "finish")
                => /\ calls'["manual"].pc = "returned"
                   /\ daily_metrics'[k] = calls["manual"].session.dirty_metrics[j].row

\* C21: under sequential sync_user runs with any days_back and offset_days there
\* is at most one DailyMetric row per (user, date), no run fails on the unique
\* constraint, and a sync of a date that has a row updates that row in place.
C21_OneRowPerUserDate ==
    /\ [](OneRowPerUserDate /\ calls["manual"].pc # "raised")
    /\ [][RowsStay /\ ExistingRowUpdated]_vars

\* Two finished syncs each synced one day and the table holds one row: the
\* second sync met the row of the first.
C21_Witness ==
    /\ Len(sync_logs) = 2
    /\ \A n \in 1..2 : sync_logs[n].status = "success" /\ sync_logs[n].metrics_synced = 1
    /\ Len(daily_metrics) = 1

\* No two Activity rows share garmin_activity_id.
OneRowPerActivityId ==
    \A k, l \in 1..Len(activities) :
        activities[k].garmin_activity_id = activities[l].garmin_activity_id => k = l

\* A step leaves every stored Activity row as it is, strain_score included.
ActivitiesStay ==
    /\ Len(activities') >= Len(activities)
    /\ \A k \in 1..Len(activities) : activities'[k] = activities[k]

\* The activities block adds no row for a stored id, and activities_synced
\* grows by the number of rows it adds.
OnlyNewCounted ==
    (calls["manual"].pc = "days" /\ calls'["manual"].pc = "finish") =>
        LET added == calls'["manual"].session.new_activities
        IN /\ \A j \in 1..Len(added), k \in 1..Len(activities) :
                 activities[k].garmin_activity_id # added[j].garmin_activity_id
           /\ calls'["manual"].result.activities_synced = Len(added)

\* The committed rows are the counted ones.
CountedAreCommitted ==
    (calls["manual"].pc = "finish" /\ calls'["manual"].pc = "returned") =>
        /\ Len(activities') - Len(activities) = calls'["manual"].result.activities_synced
        /\ sync_logs'[calls["manual"].log].activities_synced =
              Len(activities') - Len(activities)

\* C22: after any sequence of syncs there is at most one Activity row per
\* external activity id; a sync that meets a stored id leaves that row as it
\* is, strain_score included, and does not count it in activities_synced.
C22_ActivityCreatedOnce ==
    /\ []OneRowPerActivityId
    /\ [][ActivitiesStay /\ OnlyNewCounted /\ CountedAreCommitted]_vars

\* The second sync was given activity 101 with another training effect, and
\* 102: it added 102 only, and the row of 101 keeps the strain of the first.
C22_Witness ==
    /\ Len(sync_logs) = 2
    /\ sync_logs[1].activities_synced = 1
    /\ sync_logs[2].activities_synced = 1
    /\ Len(activities) = 2
    /\ activities[1].garmin_activity_id = Some(101)
    /\ activities[1].strain_score = Some(CalculateActivityStrain(Activity101))
    /\ activities[2].garmin_activity_id = Some(102)

\* The manual call and, once it has a log, its SyncLog row.
ManualCall == calls["manual"]

ManualLog == sync_logs[ManualCall.log]

\* The errors of the kinds `kinds` among errors.
ErrorsOf(errors, kinds) == SelectSeq(errors, LAMBDA e : e.kind \in kinds)

\* The errors caught by the per-day and per-activity handlers (lines 57-58,
\* 68-71).
StepErrors(errors) == ErrorsOf(errors, {"Metrics", "Activity", "Activities fetch"})

\* The manual sync has returned its result.
ManualReturned == ManualCall.pc = "returned"

\* The log and the result of a returned sync agree: 'error' goes with success
\* False, 'success' with success True and no error, 'partial' with success
\* True and at least one error; the log is closed.
StatusMatchesResult ==
    /\ ManualLog.status \in {"success", "partial", "error"}
    /\ ManualLog.status = "error" <=> ~ManualCall.result.success
    /\ ManualLog.status = "success" <=>
          (ManualCall.result.success /\ ManualCall.result.errors = <<>>)
    /\ ManualLog.status = "partial" <=>
          (ManualCall.result.success /\ ManualCall.result.errors # <<>>)

\* C25 as stated: the status is 'error' exactly when the credentials were
\* missing or the login failed, 'success' exactly when the login passed and no
\* day or activity failed, 'partial' exactly when the login passed and one did.
C25_StatusByLogin ==
    ManualReturned =>
        /\ StatusMatchesResult
        /\ ManualLog.status = "error" <=> ~ManualCall.client
        /\ ManualLog.status = "success" <=>
              (ManualCall.client /\ StepErrors(ManualCall.result.errors) = <<>>)
        /\ ManualLog.status = "partial" <=>
              (ManualCall.client /\ StepErrors(ManualCall.result.errors) # <<>>)

\* The sync was abandoned after the login: an exception reached the outer
\* handler (the date of a day could not be computed).
AbandonedAfterLogin ==
    ManualCall.client /\ ErrorsOf(ManualCall.result.errors, {"date"}) # <<>>

\* C25: the status is 'error' exactly when the credentials were missing, the
\* login failed, or the sync was abandoned after the login by an exception
\* outside the per-day and per-activity handlers; otherwise it is 'success'
\* when no day or activity failed and 'partial' when one did.
C25_StatusClassifiesRun ==
    ManualReturned =>
        /\ StatusMatchesResult
        /\ ManualLog.status = "error" <=> (~ManualCall.client \/ AbandonedAfterLogin)
        /\ ManualLog.status = "success" <=>
              (/\ ManualCall.client
               /\ ~AbandonedAfterLogin
               /\ StepErrors(ManualCall.result.errors) = <<>>)
        /\ ManualLog.status = "partial" <=>
              (/\ ManualCall.client
               /\ ~AbandonedAfterLogin
               /\ StepErrors(ManualCall.result.errors) # <<>>)

\* A sync that logged in, synced the day at date.min and was abandoned at the
\* next date: its status is 'error'.
C25_Witness ==
    /\ ManualReturned
    /\ ManualCall.client
    /\ ManualCall.result.metrics_synced = 1
    /\ ManualLog.status = "error"

\* The per-day errors recorded so far.
DayErrors(errors) == ErrorsOf(errors, {"Metrics"})

\* The number of turns range(days_back) has.
LoopLength(days_back) == Max(0, days_back)

\* The days tried so far are counted once each, as synced or as an error, and
\* every recorded error names one of the days today - offset_days - j, j < i.
DaysAccounted ==
    /\ ManualCall.result.metrics_synced + Len(DayErrors(ManualCall.result.errors))
          = ManualCall.i
    /\ \A e \in 1..Len(ManualCall.result.errors) :
          ManualCall.result.errors[e].kind = "Metrics" =>
              \E j \in 0..(ManualCall.i - 1) :
                  ManualCall.result.errors[e].ref = today - (j + ManualCall.offset_days)

\* C26 as stated: when a sync that logged in ends, metrics_synced plus the
\* number of per-day errors equals days_back.
C26_AllDaysAccounted ==
    (ManualReturned /\ ManualCall.client) =>
        ManualCall.result.metrics_synced + Len(DayErrors(ManualCall.result.errors))
            = ManualCall.days_back

\* C26: after the login a day that fails is recorded and the loop goes on:
\* at every point the days tried are counted once each, and when the sync ends
\* their number is max(0, days_back), unless the date of day i could not be
\* computed, in which case the sync was abandoned there with i days tried.
C26_DayFailuresIsolated ==
    (ManualCall.client /\ ManualCall.pc \in {"days", "finish", "returned"}) =>
        /\ DaysAccounted
        /\ ManualCall.i <= LoopLength(ManualCall.days_back)
        /\ ManualCall.pc = "finish" => ManualCall.i = LoopLength(ManualCall.days_back)
        /\ ManualCall.pc = "returned" =>
              IF AbandonedAfterLogin
              THEN /\ ManualCall.i < ManualCall.days_back
                   /\ ~ValidOrdinal(today - (ManualCall.i + ManualCall.offset_days))
              ELSE ManualCall.i = LoopLength(ManualCall.days_back)

\* The first of two days failed and the second was synced.
C26_Witness ==
    /\ ManualReturned
    /\ ManualCall.client
    /\ ManualCall.days_back = 2
    /\ ManualCall.result.metrics_synced = 1
    /\ Len(ManualCall.result.errors) = 1
    /\ ManualCall.result.errors[1] =
          [kind |-> "Metrics", ref |-> today - ManualCall.offset_days]
    /\ RowsOf(daily_metrics, ManualCall.user_id, today - ManualCall.offset_days - 1) # {}

\* The step is a manual sync_user call that ends before or at the login: it
\* creates the log and returns without a client.
FailsAtLogin ==
    /\ Len(sync_logs') = Len(sync_logs) + 1
    /\ calls'["manual"].pc = "returned"
    /\ ~calls'["manual"].client

\* C27: when the user has no credentials or the login fails, user.last_sync
\* is unchanged and no DailyMetric or Activity row is created or modified; only
\* the SyncLog changes (one closed log with status 'error'), and the result is
\* success False with the error and zero synced counts.
C27_FailedLoginChangesOnlyLog ==
    [][FailsAtLogin =>
          /\ accounts' = accounts
          /\ daily_metrics' = daily_metrics
          /\ activities' = activities
          /\ SubSeq(sync_logs', 1, Len(sync_logs)) = sync_logs
          /\ sync_logs'[Len(sync_logs')] =
                [NewSyncLog(calls'["manual"].user_id) EXCEPT
                    !.status = "error",
                    !.error_message = calls'["manual"].result.errors,
                    !.finished_at = Some(Len(sync_logs'))]
          /\ calls'["manual"].result.success = FALSE
          /\ Len(calls'["manual"].result.errors) = 1
          /\ calls'["manual"].result.errors[1].kind \in {"credentials", "login"}
          /\ calls'["manual"].result.metrics_synced = 0
          /\ calls'["manual"].result.activities_synced = 0]_vars

\* After a sync of user 1 that stored a row, a login of user 1 failed: the
\* last_sync of the first sync and its row are still there.
C27_Witness ==
    /\ Len(sync_logs) = 2
    /\ sync_logs[1].status = "success"
    /\ sync_logs[2].status = "error"
    /\ sync_logs[2].user_id = 1
    /\ sync_logs[2].error_message = <<[kind |-> "login", ref |-> 0]>>
    /\ accounts[1].last_sync = Some(1)
    /\ Len(daily_metrics) = 1

\* Some caller's sync_user has raised: the manual request failed, or the
\* scheduled job recorded an exception for a user.
SomeSyncRaised ==
    \/ calls["manual"].pc = "raised"
    \/ \E k \in 1..Len(calls["scheduler"].results) : calls["scheduler"].results[k].raised

\* Both sessions hold a new row for the same (user, date): each looked the row
\* up, found none, and added one.
BothInsert ==
    \E j \in 1..Len(calls["manual"].session.new_metrics),
       l \in 1..Len(calls["scheduler"].session.new_metrics) :
        /\ calls["manual"].session.new_metrics[j].user_id =
              calls["scheduler"].session.new_metrics[l].user_id
        /\ calls["manual"].session.new_metrics[j].date =
              calls["scheduler"].session.new_metrics[l].date

\* C23 as stated: when the scheduled sync and a manual sync overlap, the two
\* never both find no DailyMetric row for a (user, date) and both insert one,
\* and neither fails on the unique constraint.
C23_WritesSerialized == ~BothInsert /\ ~SomeSyncRaised

\* A sync_user call is still running with SyncLog n.
LogInUse(n) ==
    \E c \in Callers : calls[c].pc \in {"days", "finish"} /\ calls[c].log = n

\* C24 as stated: whatever happens during a sync, its SyncLog ends with
\* finished_at set and a status among success, partial and error: no sync that
\* has ended leaves its log 'running'.
C24_EveryLogIsClosed ==
    \A n \in 1..Len(sync_logs) :
        ~LogInUse(n) =>
            /\ sync_logs[n].status \in {"success", "partial", "error"}
            /\ sync_logs[n].finished_at # None

\* C28 as stated: sync_all_users returns one entry per user with sync_enabled,
\* in order and none for the others; a sync that raises is reported with
\* success False, and the users after it are still synced (their sync_user
\* gets as far as its SyncLog).
C28_OneResultPerEnabledUser ==
    calls["scheduler"].pc = "returned" =>
        LET results == calls["scheduler"].results
        IN /\ [k \in 1..Len(results) |-> results[k].user_id] = EnabledFrom(1)
           /\ \A k \in 1..Len(results) : results[k].raised => ~results[k].success
           /\ \A k, l \in 1..Len(results) :
                 (k < l /\ results[k].raised) => results[l].log # 0

----------------------------------------------------------------------------
(* Properties of the recalculation, checked under SpecRecalc.              *)

\* The columns the biological-age estimators write.
BioColumns(m) ==
    [f \in {"biological_age", "bio_age_rhr_impact", "bio_age_vo2_impact",
            "bio_age_sleep_impact", "bio_age_steps_impact", "bio_age_hrz_impact",
            "bio_age_stress_impact"} |-> m[f]]

\* C29 as stated: /api/recalculate and the estimator of the sync are the same
\* function of a daily record: what the endpoint has written on a row is what
\* _calculate_biological_age writes on it, the same set of factors, the same
\* biological age and the same per-factor impacts.
C29_SameEstimator ==
    response.op = "recalculate" =>
        /\ ImpactKeys(RecalcImpacts(prev)) = ImpactKeys(Impacts(prev))
        /\ BioColumns(metric) = BioColumns(CalculateBiologicalAge(prev, user))

\* The two estimators agree on every record whose intensity minutes are not
\* negative.
SameWithoutNegativeMinutes ==
    (/\ OrZero(prev.moderate_intensity_minutes) >= 0
     /\ OrZero(prev.vigorous_intensity_minutes) >= 0)
        => C29_SameEstimator

----------------------------------------------------------------------------
(* Properties of the exercise selection, checked under SpecSelectFair.     *)

\* No exercise that could still be added is left for any target muscle.
NothingLeftToAdd ==
    FillFrom(selection.selected, selection.args.target_muscles,
             [selection.args EXCEPT !.num_exercises = Len(selection.selected) + 1])
        = selection.selected

ReturnsTheSelected ==
    selection.pc = "returned" =>
        /\ Len(selection.result) <= Max(0, selection.args.num_exercises)
        /\ \/ Len(selection.result) = Max(0, selection.args.num_exercises)
           \/ selection.result = <<>>

\* The fill loop is still turning although it has added nothing in its last
\* turns: some exercises were found, fewer than asked for, and none is left.
FillLoopSpins ==
    /\ selection.pc = "fill"
    /\ selection.passes = MaxPasses - 1
    /\ Len(selection.selected) > 0
    /\ Len(selection.selected) < selection.args.num_exercises
    /\ NothingLeftToAdd

====
